---- MODULE Spec2Model ----
(***************************************************************************)
(* Development-potential engine of lot_explore.                            *)
(*                                                                         *)
(*   backend/development_analyzer.py  DevelopmentAnalyzer                  *)
(*   backend/zoning_engine.py         ZoningEngine                         *)
(*                                                                         *)
(* Numbers that the code keeps as Python floats (unit counts, scores) are  *)
(* exact rationals [n, d] in lowest terms.  Strings the code inspects with *)
(* startswith / slicing / int() (zone, year_built, toc_tier) are sequences *)
(* of one-character strings.  Strings the code inspects with the substring *)
(* operator `in` (name, affordability, approval path, feasibility) are     *)
(* sequences of fragments in which every keyword the code searches for is  *)
(* a fragment of its own.                                                  *)
(***************************************************************************)
EXTENDS Integers, Sequences, FiniteSets, TLC

(***************************************************************************)
(* Exact rational arithmetic                                               *)
(***************************************************************************)
Abs(x) == IF x < 0 THEN -x ELSE x

RECURSIVE GCD(_, _)
GCD(a, b) == IF b = 0 THEN a ELSE GCD(b, a % b)

\* n / d in lowest terms, d > 0
Rat(n, d) ==
    LET g == GCD(Abs(n), d)
    IN  [n |-> n \div g, d |-> d \div g]

RInt(k) == [n |-> k, d |-> 1]
RAdd(x, y) == Rat(x.n * y.d + y.n * x.d, x.d * y.d)
RSub(x, y) == Rat(x.n * y.d - y.n * x.d, x.d * y.d)
RMul(x, y) == Rat(x.n * y.n, x.d * y.d)
\* x / y for y > 0
RDiv(x, y) == Rat(x.n * y.d, x.d * y.n)
RLt(x, y) == x.n * y.d < y.n * x.d
RLe(x, y) == x.n * y.d <= y.n * x.d
\* Python max(a, b): b only if b > a ; min(a, b): b only if b < a
RMax(x, y) == IF RLt(x, y) THEN y ELSE x
RMin(x, y) == IF RLt(y, x) THEN y ELSE x

\* Python round(x): nearest integer, ties to the even one
PyRound(x) ==
    LET q == x.n \div x.d
        r == x.n % x.d
    IN  IF 2 * r < x.d THEN q
        ELSE IF 2 * r > x.d THEN q + 1
        ELSE IF q % 2 = 0 THEN q ELSE q + 1

(***************************************************************************)
(* String helpers                                                          *)
(***************************************************************************)
Digits == <<"0", "1", "2", "3", "4", "5", "6", "7", "8", "9">>

DigitVal(c) == (CHOOSE i \in 1..10 : Digits[i] = c) - 1

IsDigit(c) == \E i \in 1..10 : Digits[i] = c

\* str.isdigit()
IsDigitStr(s) == Len(s) > 0 /\ \A i \in 1..Len(s) : IsDigit(s[i])

\* int(s) succeeds (the strings of this model carry no sign or blanks)
IntParses(s) == IsDigitStr(s)

RECURSIVE ParseInt(_)
ParseInt(s) ==
    IF Len(s) = 0 THEN 0
    ELSE 10 * ParseInt(SubSeq(s, 1, Len(s) - 1)) + DigitVal(s[Len(s)])

\* s.startswith(p)
StartsWith(s, p) == Len(s) >= Len(p) /\ SubSeq(s, 1, Len(p)) = p

\* s[1:]
Slice1(s) == IF Len(s) = 0 THEN <<>> ELSE Tail(s)

\* keyword in text
Contains(kw, text) == \E i \in 1..Len(text) : text[i] = kw

\* str(k) for a one-digit k
DigitStr(k) == Digits[k + 1]

(***************************************************************************)
(* Zones, use codes and the static tables of DevelopmentAnalyzer           *)
(***************************************************************************)
R1 == <<"R", "1">>
RS == <<"R", "S">>
RE == <<"R", "E">>
RA == <<"R", "A">>
RD1_5 == <<"R", "D", "1", ".", "5">>
RD2 == <<"R", "D", "2">>
RD3 == <<"R", "D", "3">>
RD4 == <<"R", "D", "4">>
RD5 == <<"R", "D", "5">>
RD6 == <<"R", "D", "6">>
RU == <<"R", "U">>
R2 == <<"R", "2">>
R3 == <<"R", "3">>
R4 == <<"R", "4">>
R5 == <<"R", "5">>
\* zones that are no key of DevelopmentAnalyzer.DENSITY_FACTORS
C2 == <<"C", "2">>
RAS3 == <<"R", "A", "S", "3">>
RAS4 == <<"R", "A", "S", "4">>
NoZone == <<>>

DENSITY_FACTORS ==
    (R1 :> 5000) @@ (RS :> 5000) @@ (RE :> 2000) @@ (RA :> 2000) @@
    (RD1_5 :> 1500) @@ (RD2 :> 2000) @@ (RD3 :> 1500) @@ (RD4 :> 1200) @@
    (RD5 :> 1000) @@ (RD6 :> 800) @@
    (RU :> 800) @@ (R2 :> 800) @@ (R3 :> 800) @@ (R4 :> 400) @@ (R5 :> 200)

\* dict.get(zone, 1000)
DefaultDensityFactor == 1000

\* HEIGHT_LIMITS / FAR_LIMITS ; 0 stands for None
HEIGHT_LIMITS ==
    ("1" :> 45) @@ ("1L" :> 30) @@ ("1VL" :> 25) @@ ("1XL" :> 20) @@
    ("2" :> 75) @@ ("3" :> 150) @@ ("4" :> 275) @@ ("NL" :> 0)

\* tenths, so 1.5 is 15 ; 0 stands for None
FAR_LIMITS_x10 ==
    ("1" :> 15) @@ ("2" :> 60) @@ ("3" :> 60) @@ ("4" :> 130) @@ ("NL" :> 0)

\* dict.get(zone) with the fallback left at zero
DensityFactorZeroDefault(zone) ==
    IF zone \in DOMAIN DENSITY_FACTORS THEN DENSITY_FACTORS[zone] ELSE 0

\* line 263: DENSITY_FACTORS.get(zone, 1000)
DensityFactor(zone) ==
    IF zone \in DOMAIN DENSITY_FACTORS THEN DENSITY_FACTORS[zone]
    ELSE DefaultDensityFactor

\* _extract_zone for a record that carries no zimas_data: the base zone is
\* data['zone'] itself (the zones of this model hold no '-'), and an empty
\* zone is inferred from the use code.
ExtractZone(data) ==
    IF data.zone # <<>> THEN data.zone
    ELSE IF data.use_code = <<"0", "5", "0", "0">> THEN R4
    ELSE IF StartsWith(data.use_code, <<"1">>) THEN R1
    ELSE <<>>

\* _analyze_base_zoning
AnalyzeBaseZoning(zone, height_district, lot_area) ==
    LET density_factor == DensityFactor(zone)
        height_limit == IF height_district \in DOMAIN HEIGHT_LIMITS
                        THEN HEIGHT_LIMITS[height_district] ELSE 45
        far_limit == IF height_district \in DOMAIN FAR_LIMITS_x10
                     THEN FAR_LIMITS_x10[height_district] ELSE 15
    IN  [zone |-> zone,
         height_district |-> height_district,
         density_factor |-> density_factor,
         baseline_units |-> IF density_factor > 0
                            THEN Rat(lot_area, density_factor) ELSE RInt(0),
         height_limit_ft |-> IF height_limit = 0 THEN 200 ELSE height_limit,
         far_limit_x10 |-> IF far_limit = 0 THEN 60 ELSE far_limit]

\* _analyze_existing_conditions ; year_built is non-empty and parses here,
\* the raising case is YearRaises
AnalyzeExistingConditions(existing_units, year_built, is_rso, baseline_units) ==
    [units |-> existing_units,
     year_built |-> year_built,
     is_rso |-> is_rso,
     replacement_required |-> IF is_rso THEN existing_units ELSE 0,
     above_baseline |-> RLt(baseline_units, RInt(existing_units)),
     demolition_constraints |->
        (IF is_rso
         THEN <<"RSO replacement: Must replace existing rent-stabilized units 1:1">>
         ELSE <<>>) \o
        (IF year_built # <<>> /\ ParseInt(year_built) < 1978
         THEN <<"Historic review may be required for pre-1978 buildings">>
         ELSE <<>>)]

\* int(year_built or 0) raises ValueError (lines 293 and 434)
YearRaises(year_built) == year_built # <<>> /\ ~IntParses(year_built)

(***************************************************************************)
(* Incentives and constraints                                              *)
(***************************************************************************)
\* zone.startswith('R') and zone not in ['R1', 'RS']
MultiFamilyZone(zone) == StartsWith(zone, <<"R">>) /\ zone \notin {R1, RS}

COMMERCIAL_ZONES == {<<"C", "1">>, <<"C", "2">>, <<"C", "4">>,
                     <<"C", "M">>, <<"C", "R">>, <<"C", "W">>}

\* 5 acres in sq ft
SB684_MAX_LOT == 217800
SB9_MIN_SPLIT_LOT == 2400

\* zimas_data['transit_housing'] is a sequence of layers in dict order; a
\* layer is [toc, attributes]: whether 'toc' is in its lowered name, and its
\* attributes in dict order. An attribute is [tier_key, prefix, digits]:
\* whether 'tier' is in the lowered key, and str(value) = prefix + digits
\* with prefix "" or "Tier " or a text without 'tier'.
\* lines 322-333 for one attribute: <<>> when it yields no tier
AttributeTier(attribute) ==
    IF attribute.tier_key /\ attribute.prefix = "" /\ IsDigitStr(attribute.digits)
    THEN <<ParseInt(attribute.digits)>>
    ELSE IF attribute.prefix = "Tier " /\ IsDigitStr(attribute.digits)
    THEN <<ParseInt(attribute.digits)>>
    ELSE <<>>

RECURSIVE AttributesTier(_)
\* lines 321-333: the tier of the first attribute that yields one
AttributesTier(attributes) ==
    IF Len(attributes) = 0 THEN <<>>
    ELSE IF AttributeTier(Head(attributes)) # <<>>
    THEN AttributeTier(Head(attributes))
    ELSE AttributesTier(Tail(attributes))

RECURSIVE ScanLayers(_, _)
\* lines 318-335: toc_tier after the layers, starting from toc_tier; a
\* truthy tier ends the scan (line 334), a 0 is kept and the scan goes on
ScanLayers(layers, toc_tier) ==
    IF Len(layers) = 0 THEN toc_tier
    ELSE LET found == IF Head(layers).toc
                      THEN AttributesTier(Head(layers).attributes) ELSE <<>>
             tier == IF found # <<>> THEN found ELSE toc_tier
         IN  IF tier # <<>> /\ tier[1] # 0 THEN tier
             ELSE ScanLayers(Tail(layers), tier)

\* toc_tier after lines 310-335: <<>> is None, <<k>> the integer k
ZimasTocTier(data) == ScanLayers(data.zimas_data, <<>>)

\* line 338: not toc_tier and data.get('toc_tier')
ManualTierUsed(data) ==
    /\ ZimasTocTier(data) = <<>> \/ ZimasTocTier(data)[1] = 0
    /\ data.toc_tier # <<>>

\* int(data['toc_tier']) raises ValueError (line 339)
TocTierRaises(data) == ManualTierUsed(data) /\ ~IntParses(data.toc_tier)

\* toc_tier of _analyze_incentives (lines 310-340): <<>> is None, <<k>> the
\* integer k
ResolveTocTier(data) ==
    IF ManualTierUsed(data) THEN <<ParseInt(data.toc_tier)>>
    ELSE ZimasTocTier(data)

\* the split threshold taken for the R1 density factor, and strict
Sb9LotSplitEligibleAbove5000(sb9_eligible, lot_area) ==
    sb9_eligible /\ lot_area > 5000

\* line 345
Sb9LotSplitEligible(sb9_eligible, lot_area) ==
    sb9_eligible /\ lot_area >= SB9_MIN_SPLIT_LOT

\* _analyze_incentives
AnalyzeIncentives(data, zone) ==
    LET lot_area == data.lot_area_sqft
        sb9_eligible == zone = R1
        is_commercial == (\E cz \in COMMERCIAL_ZONES : StartsWith(zone, cz))
                         \/ StartsWith(data.use_code, <<"5">>)
    IN  [toc_tier |-> ResolveTocTier(data),
         state_density_bonus |-> MultiFamilyZone(zone),
         ab2097_eligible |-> TRUE,
         opportunity_zone |-> FALSE,
         adaptive_reuse |-> FALSE,
         ed1_eligible |-> StartsWith(zone, <<"R">>),
         sb9_eligible |-> sb9_eligible,
         sb9_lot_split_eligible |-> Sb9LotSplitEligible(sb9_eligible, lot_area),
         sb35_eligible |-> MultiFamilyZone(zone),
         sb330_eligible |-> StartsWith(zone, <<"R">>),
         ab2011_eligible |-> is_commercial \/ StartsWith(zone, <<"R">>),
         sb423_eligible |-> MultiFamilyZone(zone),
         sb4_eligible |-> StartsWith(zone, <<"R">>),
         ab1287_eligible |-> MultiFamilyZone(zone),
         ab1449_eligible |-> StartsWith(zone, <<"R">>),
         sb684_eligible |-> MultiFamilyZone(zone) /\ lot_area < SB684_MAX_LOT,
         ab2334_eligible |-> MultiFamilyZone(zone)]

METHANE == "Methane buffer zone - special foundation/venting required"
FAULT == "Seismic fault zone - enhanced seismic design required"
LIQUEFACTION == "Liquefaction risk - foundation considerations"

\* _analyze_constraints ; raw_data is the set of hazard indicators that are set
AnalyzeConstraints(data, existing) ==
    [environmental_hazards |->
        (IF "METHANE_ZONE" \in data.raw_data THEN <<METHANE>> ELSE <<>>) \o
        (IF "ALQUIST_PRIOLO_FAULT_ZONE" \in data.raw_data THEN <<FAULT>> ELSE <<>>) \o
        (IF "LIQUEFACTION" \in data.raw_data THEN <<LIQUEFACTION>> ELSE <<>>),
     historic_restrictions |->
        IF existing.year_built # <<>> /\ ParseInt(existing.year_built) < 1960
        THEN <<"Pre-1960 building may require historic review">> ELSE <<>>,
     overlay_requirements |-> <<>>,
     rso_replacement_units |-> existing.replacement_required]

(***************************************************************************)
(* DevelopmentScenario                                                     *)
(***************************************************************************)
RECURSIVE IntStr(_)
\* str(k) for k >= 0
IntStr(k) == IF k < 10 THEN <<DigitStr(k)>>
             ELSE IntStr(k \div 10) \o <<DigitStr(k % 10)>>

\* a formatted citation: the template and the values formatted into it
Cite(text, args) == [text |-> text, args |-> args]

\* Python None as an element of legal_citations
NoneCitation == Cite("<None>", <<>>)

RSO_CITATION == Cite("SB 330 Housing Crisis Act: RSO replacement requirements", <<>>)

\* recommendation_reason: "" | "Recommended because of <labels>" |
\* "Simplest path to achieve <units> units"
NoReason == [kind |-> "", units |-> 0, labels |-> <<>>]

\* DevelopmentScenario(...) with __post_init__, which drops None citations.
\* simplicity_score is the attribute _consolidate_scenarios may add:
\* <<>> while the object has no such attribute, <<k>> once it is set.
DevelopmentScenario(name, total_units, net_new_units, affordability_required, approval_path, key_benefits, constraints, feasibility, legal_citations) ==
    [name |-> name,
     total_units |-> total_units,
     net_new_units |-> net_new_units,
     affordability_required |-> affordability_required,
     approval_path |-> approval_path,
     key_benefits |-> key_benefits,
     constraints |-> constraints,
     feasibility |-> feasibility,
     legal_citations |-> SelectSeq(legal_citations, LAMBDA c : c # NoneCitation),
     recommendation_score |-> RInt(0),
     recommendation_reason |-> NoReason,
     simplicity_score |-> <<>>]

\* a unit count with the replacement floor left out
ReplacementFloorMissing(candidate_units, existing) == candidate_units

\* max(candidate_units, existing.units), the floor of every scenario formula
ReplacementFloor(candidate_units, existing) ==
    RMax(candidate_units, RInt(existing.units))

RsoConstraint(existing) ==
    IF existing.is_rso THEN <<"RSO replacement required">> ELSE <<>>

RsoCitation(existing) ==
    IF existing.is_rso THEN RSO_CITATION ELSE NoneCitation

(***************************************************************************)
(* _generate_scenarios, one operator per scenario block                    *)
(***************************************************************************)
\* Scenario 1: By-Right
ByRightScenario(base, existing, constraints) ==
    LET by_right_units == ReplacementFloor(base.baseline_units, existing)
        feasibility ==
            IF existing.is_rso /\ RLt(base.baseline_units, RInt(existing.units))
            THEN <<"Medium", " - ", "Existing building exceeds base zoning density">>
            ELSE IF Len(constraints.environmental_hazards) > 2
            THEN <<"Medium", " - ", "Multiple environmental hazards present">>
            ELSE <<"High", " - ", "Clear regulatory path">>
    IN  DevelopmentScenario(
            <<"By-Right">>,
            by_right_units,
            RMax(RInt(0), RSub(by_right_units, RInt(existing.units))),
            <<"None">>,
            <<"Administrative", " (if no demo) or CPC (if demo required)">>,
            <<"No affordability requirement", "Predictable approval", "Fastest path">>,
            <<"Limited unit count">> \o RsoConstraint(existing),
            feasibility,
            << Cite("LAMC 12.{}: {} zone density requirement",
                    <<IF StartsWith(base.zone, <<"R">>) /\ Len(base.zone) > 1
                      THEN Slice1(base.zone) ELSE <<"0", "7">>,
                      base.zone>>),
               IF base.height_district # ""
               THEN Cite("LAMC 12.21.C: Height District {} regulations",
                         <<<<base.height_district>>>>)
               ELSE Cite("LAMC 12.21.C: Height regulations", <<>>),
               RsoCitation(existing) >>)

TOC_BONUS_PCT == <<50, 60, 70, 80>>
\* f"{bonus_pct}% density bonus"
TOC_BONUS_LABEL == <<"50% density bonus", "60% density bonus",
                     "70% density bonus", "80% density bonus">>
TOC_AFFORDABILITY == <<"8% VLI", "9% VLI", "10% VLI", "11% VLI">>

\* Scenario 2: TOC
TocScenario(base, existing, constraints, tier) ==
    LET bonus_pct == IF tier \in 1..4 THEN TOC_BONUS_PCT[tier] ELSE 50
        affordability_req == IF tier \in 1..4 THEN TOC_AFFORDABILITY[tier]
                             ELSE "11% VLI"
        bonus_label == IF tier \in 1..4 THEN TOC_BONUS_LABEL[tier]
                       ELSE "50% density bonus"
        toc_units == RMul(base.baseline_units, Rat(100 + bonus_pct, 100))
        toc_total == ReplacementFloor(toc_units, existing)
        toc_feasibility ==
            IF existing.is_rso
            THEN <<"High", " - RSO replacement required but TOC streamlines process">>
            ELSE IF Len(constraints.environmental_hazards) > 1
            THEN <<"Medium", " - Environmental hazards may complicate construction">>
            ELSE <<"High", " - Clear path with strong incentives">>
    IN  DevelopmentScenario(
            <<"TOC", " Tier ">> \o IntStr(tier),
            toc_total,
            RSub(toc_total, RInt(existing.units)),
            <<affordability_req>>,
            <<"Administrative", " approval (no CUP required)">>,
            <<bonus_label, "Reduced parking (0.5/unit or none)",
              "Height bonus possible", "Streamlined approval",
              "No parking minimums if Tier 3+">>,
            <<"Affordability requirement">> \o RsoConstraint(existing),
            toc_feasibility,
            << Cite("LAMC 12.22-A.31: TOC Tier {} density bonus ({}%)",
                    <<IntStr(tier), IntStr(bonus_pct)>>),
               Cite("TOC Guidelines: {} affordability requirement for Tier {}",
                    <<<<affordability_req>>, IntStr(tier)>>),
               Cite("Measure JJJ (2016): Voter-approved TOC program", <<>>),
               RsoCitation(existing) >>)

\* the 35% bonus of ZoningEngine.analyze_state_density_bonus
SdbMultiplier35 == Rat(27, 20)

\* line 526: base.baseline_units * 1.50
SdbMultiplier == Rat(3, 2)

\* Scenario 3: State Density Bonus
StateDensityBonusScenario(base, existing) ==
    LET sdb_units == RMul(base.baseline_units, SdbMultiplier)
        sdb_total == ReplacementFloor(sdb_units, existing)
        sdb_feasibility ==
            IF existing.is_rso /\ RLt(base.baseline_units, RInt(existing.units))
            THEN <<"Medium", " - Complex due to over-built RSO property">>
            ELSE IF MultiFamilyZone(base.zone)
            THEN <<"High", " - Multi-family zones have established SDB precedent">>
            ELSE <<"High", " - Straightforward application">>
    IN  DevelopmentScenario(
            <<"State Density", " Bonus">>,
            sdb_total,
            RSub(sdb_total, RInt(existing.units)),
            <<"15% Very Low Income units (50% bonus) or sliding scale from 5% VLI (20% bonus)">>,
            <<"By-right with density bonus application (Gov Code 65915)">>,
            <<"Up to 50% density bonus", "Up to 3 concessions (parking, setback, height)",
              "Reduced parking possible", "Cannot be denied if compliant">>,
            <<"Affordability requirement">> \o RsoConstraint(existing),
            sdb_feasibility,
            << Cite("Gov Code 65915: California State Density Bonus Law", <<>>),
               Cite("Gov Code 65915(b)(1)(B): 15% VLI units = 50% density bonus", <<>>),
               Cite("AB 2345 (2020): Increased maximum bonus from 35% to 50%", <<>>),
               Cite("Gov Code 65915(d): Up to 3 regulatory concessions", <<>>),
               RsoCitation(existing) >>)

\* Scenario 4a: SB-9 lot split
Sb9LotSplitScenario(existing) ==
    LET sb9_split_total == ReplacementFloor(RInt(4), existing)
    IN  DevelopmentScenario(
            <<"SB-9", " Lot Split + Duplex">>,
            sb9_split_total,
            RSub(sb9_split_total, RInt(existing.units)),
            <<"None">>,
            <<"Ministerial", " approval (SB-9, Gov Code 66411.7)">>,
            <<"No affordability requirement",
              "Ministerial approval (no discretionary review)",
              "No parking minimums", "Maximum 4 total units",
              "Can sell lots separately">>,
            <<"Minimum 1,200 sq ft per lot after split",
              "Owner-occupancy required for 3 years",
              "Cannot demolish existing home in some cases">>,
            IF existing.units > 1
            THEN <<"Medium", " - Existing multi-unit may complicate lot split process">>
            ELSE <<"High", " - Clear ministerial approval pathway for lot split">>,
            << Cite("Gov Code 66411.7 (SB-9 lot split)", <<>>),
               Cite("Gov Code 65852.21 (SB-9 duplex allowance)", <<>>),
               Cite("AB-2097 (no parking minimums)", <<>>) >>)

\* Scenario 4b: SB-9 duplex
Sb9DuplexScenario(existing) ==
    LET sb9_duplex_total == ReplacementFloor(RInt(2), existing)
    IN  DevelopmentScenario(
            <<"SB-9", " Duplex">>,
            sb9_duplex_total,
            RSub(sb9_duplex_total, RInt(existing.units)),
            <<"None">>,
            <<"Ministerial", " approval (SB-9, Gov Code 65852.21)">>,
            <<"No affordability requirement", "Ministerial approval",
              "No parking minimums if near transit",
              "Preserve neighborhood character">>,
            <<"Owner-occupancy required for 3 years",
              "Cannot exceed duplex (2 units) on single lot">>,
            IF existing.units > 1
            THEN <<"Medium", " - May need to reduce units to comply with duplex limit">>
            ELSE <<"High", " - Simple ministerial conversion to duplex">>,
            << Cite("Gov Code 65852.21 (SB-9 duplex allowance)", <<>>),
               Cite("AB-2097 (no parking minimums near transit)", <<>>),
               Cite("Gov Code 65852.21(f) (owner-occupancy requirement)", <<>>) >>)

\* the ED-1 cascade reaches int(base.zone[1:]) and the slice is no integer:
\* ValueError out of _generate_scenarios (line 621)
Ed1FeasibilityRaises(base, existing, constraints) ==
    /\ ~(existing.is_rso /\ existing.units >= 5)
    /\ ~(Len(constraints.environmental_hazards) >= 2)
    /\ StartsWith(base.zone, <<"R">>)
    /\ ~IntParses(Slice1(base.zone))

\* the ED-1 cascade giving the class alone, without a reason
Ed1FeasibilityBare(base, existing, constraints) ==
    IF existing.is_rso /\ existing.units >= 5 THEN <<"Medium">>
    ELSE IF Len(constraints.environmental_hazards) >= 2 THEN <<"Medium">>
    ELSE <<"High">>

\* ED-1 feasibility logic (lines 616-624), where it does not raise
Ed1Feasibility(base, existing, constraints) ==
    IF existing.is_rso /\ existing.units >= 5
    THEN <<"Medium", " - RSO replacement complex but ED-1 provides strong tools">>
    ELSE IF Len(constraints.environmental_hazards) >= 2
    THEN <<"Medium", " - Environmental hazards require mitigation">>
    ELSE IF StartsWith(base.zone, <<"R">>) /\ ParseInt(Slice1(base.zone)) >= 3
    THEN <<"High", " - Well-suited for higher density affordable housing">>
    ELSE <<"High", " - Strong policy support and streamlined process">>

\* Scenario 5: 100% Affordable (ED-1)
Ed1Scenario(base, existing, constraints) ==
    LET affordable_units == RMul(base.baseline_units, RInt(2))
        affordable_total == ReplacementFloor(affordable_units, existing)
    IN  DevelopmentScenario(
            <<"100% Affordable (ED-1)">>,
            affordable_total,
            RSub(affordable_total, RInt(existing.units)),
            <<"100%", " affordable housing (mix of VLI, LI, Moderate allowed)">>,
            <<"Ministerial", " approval (Executive Directive 1)">>,
            <<"No parking requirements", "Maximum height/FAR allowed",
              "Streamlined ministerial approval", "No EIR required",
              "Expedited permitting">>,
            <<"100% affordability requirement">> \o RsoConstraint(existing),
            Ed1Feasibility(base, existing, constraints),
            << Cite("Executive Directive No. 1 (Mayor's Directive)", <<>>),
               Cite("LAMC 12.22-A.25 (100% affordable housing)", <<>>),
               Cite("Gov Code 65915 (no parking requirements for affordable)", <<>>),
               Cite("SB-35 streamlining provisions", <<>>) >>)

\* Scenario 6: SB-35
Sb35Scenario(base, existing) ==
    LET sb35_units == RMul(base.baseline_units, Rat(5, 4))
        sb35_total == ReplacementFloor(sb35_units, existing)
    IN  DevelopmentScenario(
            <<"SB-35 Streamlined Affordable">>,
            sb35_total,
            RSub(sb35_total, RInt(existing.units)),
            <<"20% affordable housing (varies by income mix)">>,
            <<"Ministerial", " approval (SB-35, Gov Code 65913.4)">>,
            <<"No CEQA review", "Ministerial approval",
              "Cannot be denied if compliant", "Expedited processing">>,
            <<"Affordability requirement",
              "Jurisdiction must not have met RHNA goals">> \o RsoConstraint(existing),
            <<"High", " - Strong legal protection against denial">>,
            << Cite("Gov Code 65913.4 (SB-35 streamlined approval)", <<>>),
               Cite("Gov Code 65913.4(a)(5) (20% affordability)", <<>>),
               Cite("Gov Code 65913.4(c) (CEQA exemption)", <<>>),
               Cite("Gov Code 65913.4(b) (ministerial approval)", <<>>) >>)

\* R4-level density assumed on commercial land (line 661)
AB2011_DENSITY == 400

\* Scenario 7: AB-2011
Ab2011Scenario(existing, lot_area) ==
    LET ab2011_units == Rat(lot_area, AB2011_DENSITY)
        ab2011_total == ReplacementFloor(ab2011_units, existing)
    IN  DevelopmentScenario(
            <<"AB-2011 Commercial Conversion">>,
            ab2011_total,
            RSub(ab2011_total, RInt(existing.units)),
            <<"15% affordable housing or comparable fees">>,
            <<"Ministerial", " approval (AB-2011, Gov Code 65912.111)">>,
            <<"Ministerial approval", "Commercial to residential conversion",
              "Prevailing wage jobs", "CEQA streamlining">>,
            <<"Affordability requirement", "Prevailing wage requirement",
              "Must meet objective standards">>,
            <<"High", " - Clear conversion path for commercial properties">>,
            << Cite("Gov Code 65912.111 (AB-2011 commercial conversion)", <<>>),
               Cite("Gov Code 65912.111(h) (15% affordability)", <<>>),
               Cite("Gov Code 65912.111(f) (prevailing wage)", <<>>),
               Cite("Gov Code 65912.111(g) (CEQA streamlining)", <<>>) >>)

\* Scenario 8: AB-1287
Ab1287Scenario(base, existing) ==
    LET ab1287_units == RMul(base.baseline_units, RInt(2))
        ab1287_total == ReplacementFloor(ab1287_units, existing)
    IN  DevelopmentScenario(
            <<"AB-1287 Enhanced Density Bonus">>,
            ab1287_total,
            RSub(ab1287_total, RInt(existing.units)),
            <<"Mix of moderate and very low income units for maximum bonus">>,
            <<"By-right with enhanced density bonus application">>,
            <<"Up to 100% density bonus", "Missing middle housing focus",
              "Additional concessions available", "Cannot be denied if compliant">>,
            <<"Enhanced affordability requirement">> \o RsoConstraint(existing),
            <<"High", " - Enhanced version of proven density bonus law">>,
            << Cite("Gov Code 65915(f)(4) (AB-1287 enhanced bonus)", <<>>),
               Cite("Gov Code 65915.7 (moderate income provisions)", <<>>),
               Cite("Gov Code 65915(d)(2)(C) (100% bonus)", <<>>),
               Cite("Gov Code 65915(k) (additional concessions)", <<>>) >>)

\* Scenario 9: SB-330
Sb330Scenario(base, existing) ==
    LET sb330_units == RMul(base.baseline_units, Rat(3, 2))
        sb330_total == ReplacementFloor(sb330_units, existing)
    IN  DevelopmentScenario(
            <<"SB-330 Builder's Remedy">>,
            sb330_total,
            RSub(sb330_total, RInt(existing.units)),
            <<"20% affordable housing">>,
            <<"Ministerial", " approval with Builder's Remedy protections">>,
            <<"Overrides local zoning", "Ministerial approval",
              "Cannot be downzoned", "Strong legal protections">>,
            <<"Only available during housing element non-compliance",
              "Affordability requirement", "Must meet objective standards">>,
            <<"Medium", " - Depends on housing element certification status">>,
            << Cite("Gov Code 65589.5 (SB-330 Builder's Remedy)", <<>>),
               Cite("Gov Code 65589.5(j)(2) (20% affordability)", <<>>),
               Cite("Gov Code 65589.5(j)(1) (override local zoning)", <<>>),
               Cite("Gov Code 65589.5(n) (ministerial approval)", <<>>) >>)

SB684_MAX_UNITS == 10
SB684_MIN_UNITS == 3

\* the zoning-derived count with the 3-unit minimum and no 10-unit cap
Sb684UnitsUncapped(base) ==
    RMax(base.baseline_units, RInt(SB684_MIN_UNITS))

\* lines 720-721: min(10.0, max(max_by_zoning, 3.0))
Sb684Units(base) ==
    LET max_by_zoning == base.baseline_units
    IN  RMin(RInt(SB684_MAX_UNITS), RMax(max_by_zoning, RInt(SB684_MIN_UNITS)))

\* Scenario 10: SB-684
Sb684Scenario(base, existing) ==
    LET sb684_units == Sb684Units(base)
        sb684_total == ReplacementFloor(sb684_units, existing)
    IN  DevelopmentScenario(
            <<"SB-684", " Small Site Housing">>,
            sb684_total,
            RSub(sb684_total, RInt(existing.units)),
            <<"None">>,
            <<"Ministerial", " approval (SB-684) - 60 day maximum">>,
            <<"No affordability requirement", "Ministerial approval", "CEQA-exempt",
              "60-day approval timeline", "No public hearings">>,
            <<"Maximum 10 units", "Urban lots under 5 acres only",
              "Must meet objective standards">> \o RsoConstraint(existing),
            <<"High", " - Simple ministerial process for small projects">>,
            << Cite("Gov Code 65913.5 (SB-684 small site housing)", <<>>),
               Cite("Gov Code 65913.5(a)(1) (10 unit maximum)", <<>>),
               Cite("Gov Code 65913.5(a)(2) (5 acre limitation)", <<>>),
               Cite("Gov Code 65913.5(b) (60-day approval)", <<>>),
               Cite("Gov Code 65913.5(c) (CEQA exemption)", <<>>) >>)

(***************************************************************************)
(* _score_scenarios                                                        *)
(***************************************************************************)
\* getattr(scenario, 'simplicity_score', 0)
SimplicityAttr(scenario) ==
    IF scenario.simplicity_score = <<>> THEN 0 ELSE scenario.simplicity_score[1]

\* lines 804-817: the simplicity ladder
SimplicityPoints(simplicity_score) ==
    IF simplicity_score <= 2 THEN 4
    ELSE IF simplicity_score <= 5 THEN 3
    ELSE IF simplicity_score <= 8 THEN 2
    ELSE 1

SimplicityLabel(simplicity_score) ==
    IF simplicity_score <= 2 THEN "very easy to build"
    ELSE IF simplicity_score <= 5 THEN "easy to build"
    ELSE IF simplicity_score <= 8 THEN "moderate complexity"
    ELSE "complex process"

\* the yield points without the cap
UnitYieldUncapped(total_units, baseline_units) ==
    IF RLt(RInt(0), baseline_units)
    THEN RMul(RDiv(total_units, baseline_units), Rat(3, 2))
    ELSE RInt(0)

\* lines 819-822: score += min(unit_multiplier * 1.5, 3.0), nothing when the
\* baseline is not positive
UnitYieldPoints(total_units, baseline_units) ==
    IF RLt(RInt(0), baseline_units)
    THEN RMin(RMul(RDiv(total_units, baseline_units), Rat(3, 2)), RInt(3))
    ELSE RInt(0)

\* lines 823-828
UnitYieldLabel(total_units, baseline_units) ==
    IF ~RLt(RInt(0), baseline_units) THEN <<>>
    ELSE LET unit_multiplier == RDiv(total_units, baseline_units)
         IN  IF RLe(RInt(2), unit_multiplier) THEN <<"excellent unit yield">>
             ELSE IF RLe(Rat(3, 2), unit_multiplier) THEN <<"good unit yield">>
             ELSE IF RLe(Rat(6, 5), unit_multiplier) THEN <<"modest unit yield">>
             ELSE <<>>

\* lines 830-839
FeasibilityPoints(feasibility) ==
    IF Contains("High", feasibility) THEN 3
    ELSE IF Contains("Medium", feasibility) THEN 2
    ELSE 1

FeasibilityLabel(feasibility) ==
    IF Contains("High", feasibility) THEN "high feasibility"
    ELSE IF Contains("Medium", feasibility) THEN "medium feasibility"
    ELSE "challenging feasibility"

SMALL_LOT == 3000

\* lines 841-855: the special bonuses
SmallLotBonus(scenario, lot_area) ==
    lot_area < SMALL_LOT
    /\ (Contains("SB-9", scenario.name) \/ Contains("SB-684", scenario.name))

R1Bonus(scenario, base) == base.zone = R1 /\ Contains("SB-9", scenario.name)

\* the rent-stabilization bonus given to the TOC scenario alone
RsoBonusTocOnly(scenario, existing) ==
    existing.is_rso /\ Contains("TOC", scenario.name)

RsoBonus(scenario, existing) ==
    existing.is_rso
    /\ (Contains("TOC", scenario.name) \/ Contains("State Density", scenario.name))

ContextBonus(scenario, base, existing, lot_area) ==
    RAdd(RAdd(IF SmallLotBonus(scenario, lot_area) THEN RInt(1) ELSE RInt(0),
              IF R1Bonus(scenario, base) THEN RInt(2) ELSE RInt(0)),
         IF RsoBonus(scenario, existing) THEN Rat(1, 2) ELSE RInt(0))

FirstThree(labels) == SubSeq(labels, 1, IF Len(labels) < 3 THEN Len(labels) ELSE 3)

\* the body of the loop of _score_scenarios for one scenario
ScoreScenario(scenario, base, existing, lot_area) ==
    LET simplicity_score == SimplicityAttr(scenario)
        score == RAdd(RAdd(RAdd(RInt(SimplicityPoints(simplicity_score)),
                                UnitYieldPoints(scenario.total_units,
                                                base.baseline_units)),
                           RInt(FeasibilityPoints(scenario.feasibility))),
                      ContextBonus(scenario, base, existing, lot_area))
        reasons == <<SimplicityLabel(simplicity_score)>>
                   \o UnitYieldLabel(scenario.total_units, base.baseline_units)
                   \o <<FeasibilityLabel(scenario.feasibility)>>
                   \o (IF SmallLotBonus(scenario, lot_area)
                       THEN <<"perfect for small lots">> ELSE <<>>)
                   \o (IF R1Bonus(scenario, base)
                       THEN <<"ideal for R1 properties">> ELSE <<>>)
                   \o (IF RsoBonus(scenario, existing)
                       THEN <<"handles RSO well">> ELSE <<>>)
    IN  [scenario EXCEPT
            !.recommendation_score = score,
            !.recommendation_reason =
                [kind |-> "Recommended because of", units |-> 0,
                 labels |-> FirstThree(reasons)]]

\* x placed behind every element whose score is not smaller: one step of a
\* stable descending sort
InsertByScore(sorted, x) ==
    LET before == {i \in 1..Len(sorted) :
                     \A j \in 1..i :
                        RLe(x.recommendation_score, sorted[j].recommendation_score)}
        k == Cardinality(before)
    IN  SubSeq(sorted, 1, k) \o <<x>> \o SubSeq(sorted, k + 1, Len(sorted))

RECURSIVE SortByScore(_)
\* scenarios.sort(key=recommendation_score, reverse=True): stable
SortByScore(scenarios) ==
    IF Len(scenarios) = 0 THEN <<>>
    ELSE InsertByScore(SortByScore(SubSeq(scenarios, 1, Len(scenarios) - 1)),
                       scenarios[Len(scenarios)])

\* _score_scenarios without the final sort
ScoreScenariosUnsorted(scenarios, base, existing, lot_area) ==
    [i \in 1..Len(scenarios) |->
        ScoreScenario(scenarios[i], base, existing, lot_area)]

\* _score_scenarios
ScoreScenarios(scenarios, base, existing, lot_area) ==
    SortByScore([i \in 1..Len(scenarios) |->
                    ScoreScenario(scenarios[i], base, existing, lot_area)])

(***************************************************************************)
(* _generate_scenarios                                                     *)
(***************************************************************************)
\* the scenario blocks in source order, each appended when its guard holds
ScenarioList(base, existing, incentives, constraints, lot_area) ==
    <<ByRightScenario(base, existing, constraints)>>
    \o (IF incentives.toc_tier # <<>> /\ incentives.toc_tier[1] # 0
        THEN <<TocScenario(base, existing, constraints, incentives.toc_tier[1])>>
        ELSE <<>>)
    \o (IF incentives.state_density_bonus
        THEN <<StateDensityBonusScenario(base, existing)>> ELSE <<>>)
    \o (IF incentives.sb9_eligible /\ incentives.sb9_lot_split_eligible
        THEN <<Sb9LotSplitScenario(existing)>> ELSE <<>>)
    \o (IF incentives.sb9_eligible
        THEN <<Sb9DuplexScenario(existing)>> ELSE <<>>)
    \o (IF incentives.ed1_eligible
        THEN <<Ed1Scenario(base, existing, constraints)>> ELSE <<>>)
    \o (IF incentives.sb35_eligible
        THEN <<Sb35Scenario(base, existing)>> ELSE <<>>)
    \o (IF incentives.ab2011_eligible /\ StartsWith(base.zone, <<"C">>)
        THEN <<Ab2011Scenario(existing, lot_area)>> ELSE <<>>)
    \o (IF incentives.ab1287_eligible
        THEN <<Ab1287Scenario(base, existing)>> ELSE <<>>)
    \o (IF incentives.sb330_eligible
        THEN <<Sb330Scenario(base, existing)>> ELSE <<>>)
    \o (IF incentives.sb684_eligible
        THEN <<Sb684Scenario(base, existing)>> ELSE <<>>)

\* _generate_scenarios raises
GenerateRaises(base, existing, incentives, constraints) ==
    incentives.ed1_eligible /\ Ed1FeasibilityRaises(base, existing, constraints)

\* the scenario blocks run last to first before the scoring
GenerateScenariosLastFirst(base, existing, incentives, constraints, lot_area) ==
    LET scenarios == ScenarioList(base, existing, incentives, constraints,
                                  lot_area)
    IN  ScoreScenarios([i \in 1..Len(scenarios) |->
                           scenarios[Len(scenarios) + 1 - i]],
                       base, existing, lot_area)

\* _generate_scenarios returns: the list, scored and sorted (line 739)
GenerateScenarios(base, existing, incentives, constraints, lot_area) ==
    ScoreScenarios(ScenarioList(base, existing, incentives, constraints, lot_area),
                   base, existing, lot_area)

(***************************************************************************)
(* _consolidate_scenarios                                                  *)
(***************************************************************************)
UnitsKey(scenario) == PyRound(scenario.total_units)

\* lines 761-784
SimplicityScore(scenario) ==
    (IF ~Contains("None", scenario.affordability_required)
     THEN IF Contains("100%", scenario.affordability_required) THEN 10 ELSE 5
     ELSE 0)
    + (IF Contains("Ministerial", scenario.approval_path) THEN 0
       ELSE IF Contains("Administrative", scenario.approval_path) THEN 2
       ELSE 5)
    + (IF Contains("High", scenario.feasibility) THEN 0
       ELSE IF Contains("Medium", scenario.feasibility) THEN 3
       ELSE 8)

\* unit_groups[units_key], in list order
UnitGroup(scenarios, units_key) ==
    SelectSeq(scenarios, LAMBDA s : UnitsKey(s) = units_key)

\* the first scenario of the group, whatever its score
SimplestIsFirst(group) == group[1]

\* min(group, key=simplicity_score): the first scenario with the least score
Simplest(group) ==
    LET i == CHOOSE i \in 1..Len(group) :
                /\ \A j \in 1..Len(group) :
                      SimplicityScore(group[i]) <= SimplicityScore(group[j])
                /\ \A j \in 1..(i - 1) :
                      SimplicityScore(group[j]) > SimplicityScore(group[i])
    IN  group[i]

\* the simplest scenario of a group kept with the reason it came with
ConsolidateGroupKeepsReason(group, units_key) ==
    IF Len(group) = 1 THEN group[1]
    ELSE LET simplest == Simplest(group)
         IN  [simplest EXCEPT
                !.simplicity_score = <<SimplicityScore(simplest)>>]

\* what one group contributes to `consolidated`
ConsolidateGroup(group, units_key) ==
    IF Len(group) = 1 THEN group[1]
    ELSE LET simplest == Simplest(group)
         IN  [simplest EXCEPT
                !.simplicity_score = <<SimplicityScore(simplest)>>,
                !.recommendation_reason =
                    [kind |-> "Simplest path to achieve", units |-> units_key,
                     labels |-> <<>>]]

\* the positions at which a units key occurs first: dict insertion order
FirstOccurrences(scenarios) ==
    SelectSeq([i \in 1..Len(scenarios) |-> i],
              LAMBDA i : \A j \in 1..(i - 1) :
                            UnitsKey(scenarios[j]) # UnitsKey(scenarios[i]))

\* every scenario passed through, groups or not
ConsolidateScenariosKeepsAll(scenarios) == scenarios

\* _consolidate_scenarios
ConsolidateScenarios(scenarios) ==
    LET firsts == FirstOccurrences(scenarios)
    IN  [g \in 1..Len(firsts) |->
            ConsolidateGroup(UnitGroup(scenarios, UnitsKey(scenarios[firsts[g]])),
                             UnitsKey(scenarios[firsts[g]]))]

(***************************************************************************)
(* _generate_bottom_line and _generate_next_steps                          *)
(***************************************************************************)
\* max(scenarios, key=total_units): the first scenario with the most units
MostUnits(scenarios) ==
    LET i == CHOOSE i \in 1..Len(scenarios) :
                /\ \A j \in 1..Len(scenarios) :
                      RLe(scenarios[j].total_units, scenarios[i].total_units)
                /\ \A j \in 1..(i - 1) :
                      RLt(scenarios[j].total_units, scenarios[i].total_units)
    IN  scenarios[i]

\* _generate_bottom_line ; numbers formatted with :.0f are rounded as Python
\* rounds them. unlock is <<>> for the "Limited development potential" text.
GenerateBottomLine(base, existing, scenarios) ==
    LET feasible_scenarios ==
            SelectSeq(scenarios, LAMBDA s : s.feasibility \in {<<"High">>, <<"Medium">>})
    IN  [baseline_note |-> IF existing.above_baseline
                           THEN "Site is already above base density"
                           ELSE "Site is under-built relative to base density",
         existing_units |-> existing.units,
         allowed |-> PyRound(base.baseline_units),
         rso_note |-> IF existing.is_rso
                      THEN "RSO replacement requirement"
                      ELSE "No RSO replacement requirements.",
         unlock |-> IF Len(feasible_scenarios) > 0
                    THEN LET best == MostUnits(feasible_scenarios)
                         IN  <<[name |-> best.name,
                                total |-> PyRound(best.total_units),
                                net_new |-> PyRound(best.net_new_units)]>>
                    ELSE <<>>]

Step(text, arg) == [text |-> text, arg |-> arg]

\* _generate_next_steps
GenerateNextSteps(scenarios, constraints) ==
    LET high_feasibility == SelectSeq(scenarios, LAMBDA s : s.feasibility = <<"High">>)
    IN  (IF Len(high_feasibility) > 0
         THEN LET best == MostUnits(high_feasibility)
              IN  <<Step("Pursue {} for optimal unit yield", best.name),
                    Step("Confirm {} affordability strategy",
                         best.affordability_required)>>
         ELSE <<>>)
        \o (IF Len(constraints.environmental_hazards) > 0
            THEN <<Step("Conduct environmental due diligence for hazard mitigation", <<>>)>>
            ELSE <<>>)
        \o (IF constraints.rso_replacement_units > 0
            THEN <<Step("Develop RSO tenant relocation and replacement unit plan", <<>>)>>
            ELSE <<>>)
        \o <<Step("Verify TOC tier designation and transit proximity", <<>>),
             Step("Engage with planning consultant for entitlement strategy", <<>>)>>

(***************************************************************************)
(* analyze_development_potential                                           *)
(***************************************************************************)
\* the locals of analyze_development_potential up to the constraints
Zone(data) == ExtractZone(data)
Base(data) == AnalyzeBaseZoning(Zone(data), data.height_district, data.lot_area_sqft)
Existing(data) ==
    AnalyzeExistingConditions(data.existing_units, data.year_built, data.is_rso,
                              Base(data).baseline_units)
Incentives(data) == AnalyzeIncentives(data, Zone(data))
ConstraintsOf(data) == AnalyzeConstraints(data, Existing(data))

\* an exception propagates out of analyze_development_potential: from line
\* 159, else from line 164, else from line 170
AnalysisRaises(data) ==
    IF YearRaises(data.year_built) THEN TRUE
    ELSE IF TocTierRaises(data) THEN TRUE
    ELSE GenerateRaises(Base(data), Existing(data), Incentives(data),
                        ConstraintsOf(data))

\* analyze_development_potential, where it returns: the scenario list as
\* _generate_scenarios returned it (line 172), as _consolidate_scenarios
\* returned it (line 174), and the DevelopmentAnalysis returned at line 202
AnalyzeDevelopmentPotential(data) ==
    LET zone == ExtractZone(data)
        lot_area == data.lot_area_sqft
        base_zoning == AnalyzeBaseZoning(zone, data.height_district, lot_area)
        existing_conditions ==
            AnalyzeExistingConditions(data.existing_units, data.year_built,
                                      data.is_rso, base_zoning.baseline_units)
        incentives == AnalyzeIncentives(data, zone)
        constraints == AnalyzeConstraints(data, existing_conditions)
        generated == GenerateScenarios(base_zoning, existing_conditions,
                                       incentives, constraints, lot_area)
        consolidated == ConsolidateScenarios(generated)
        scenarios == ScoreScenarios(consolidated, base_zoning,
                                    existing_conditions, lot_area)
    IN  [generated |-> generated,
         consolidated |-> consolidated,
         analysis |->
            [base_zoning |-> base_zoning,
             existing_conditions |-> existing_conditions,
             incentive_opportunities |-> incentives,
             constraints |-> constraints,
             development_scenarios |-> scenarios,
             bottom_line |-> GenerateBottomLine(base_zoning, existing_conditions,
                                                scenarios),
             next_steps |-> GenerateNextSteps(scenarios, constraints)]]

(***************************************************************************)
(* ZoningEngine (zoning_engine.py)                                         *)
(***************************************************************************)
ENGINE_DENSITY_FACTORS ==
    DENSITY_FACTORS @@ (RAS3 :> 800) @@ (RAS4 :> 400)

RECURSIVE BeforeDash(_)
\* zone_str.split('-')[0]
BeforeDash(s) ==
    IF Len(s) = 0 \/ Head(s) = "-" THEN <<>>
    ELSE <<Head(s)>> \o BeforeDash(Tail(s))

\* parse_zone(zone_str)[0]
ParseZone(zone_str) == BeforeDash(zone_str)

\* Citation(code, description, value, source) ; value is an int or a str
Citation(code, description, int_value, str_value, source) ==
    [code |-> code, description |-> description,
     value |-> [int |-> int_value, str |-> str_value], source |-> source]

\* lines 208-213
DensityCitation(zone) ==
    LET base_zone == ParseZone(zone)
        density_factor == IF base_zone \in DOMAIN ENGINE_DENSITY_FACTORS
                          THEN ENGINE_DENSITY_FACTORS[base_zone]
                          ELSE DefaultDensityFactor
    IN  Citation(Cite("LAMC 12.03-{}", <<base_zone>>),
                 Cite("Density factor for {} zone", <<base_zone>>),
                 density_factor, "", "LA Municipal Code")

\* lines 221-226
Sb330Citation(existing_units) ==
    Citation(Cite("SB 330", <<>>),
             Cite("Replacement housing requirement for RSO properties", <<>>),
             existing_units, "", "State Law")

\* lines 303-308
Sb9Citation ==
    Citation(Cite("SB 9", <<>>),
             Cite("California duplex and lot split law", <<>>),
             0, "Eligible for R1 zones", "State Law")

\* the LotUnits calculate_lot_units returns
CalculateLotUnits(lot_area_sqft, zone, existing_units, is_rso) ==
    LET base_zone == ParseZone(zone)
        density_factor == IF base_zone \in DOMAIN ENGINE_DENSITY_FACTORS
                          THEN ENGINE_DENSITY_FACTORS[base_zone]
                          ELSE DefaultDensityFactor
        baseline_units == IF density_factor > 0
                          THEN Rat(lot_area_sqft, density_factor) ELSE RInt(0)
    IN  [lot_area_sqft |-> lot_area_sqft,
         baseline_units |-> baseline_units,
         existing_units |-> existing_units,
         replacement_units |-> IF is_rso
                               THEN RMax(baseline_units, RInt(existing_units))
                               ELSE baseline_units]

\* eligible of analyze_sb9_eligibility
Sb9Eligible(zone) == ParseZone(zone) = R1

(***************************************************************************)
(* Input records                                                           *)
(***************************************************************************)
\* toc_tier values '1' .. str(MaxTier) are supplied besides None
MaxTier == 5

Zones == {R1, RS, RE, RA, RD1_5, RD2, RD3, RD4, RD5, RD6, RU, R2, R3, R4, R5,
          C2, RAS3}
LotAreas == {0, 2400, 5000, 10000, 217800}
ExistingUnitCounts == {0, 1, 8, 30}
\* raw_data: no hazard, one, two or all three hazard indicators set
HazardSets == {{}, {"METHANE_ZONE"}, {"METHANE_ZONE", "LIQUEFACTION"},
               {"METHANE_ZONE", "ALQUIST_PRIOLO_FAULT_ZONE", "LIQUEFACTION"}}
\* '', '1950' and a year that is no number, 'n/a'
Years == {<<>>, <<"1", "9", "5", "0">>, <<"n", "/", "a">>}
UseCodes == {<<"0", "1", "0", "0">>}
\* None, a tier of every bonus class the claims name, and the largest tier
TocTiers == {<<>>} \cup {IntStr(k) : k \in {1, 3, MaxTier}}

\* no zimas_data
NoZimas == <<>>

TierAttribute(tier_key, prefix, digits) ==
    [tier_key |-> tier_key, prefix |-> prefix, digits |-> digits]

TocLayer(toc, attributes) == [toc |-> toc, attributes |-> attributes]

\* transit_housing sections: a TIER field of 2; a text "Tier 4" under another
\* key; a TIER field of 0; a tier in a layer that is no TOC layer; a TIER
\* field of 7; a TOC layer with a TIER of 0 followed by one with "Tier 1"
ZimasSamples ==
    { <<TocLayer(TRUE, <<TierAttribute(FALSE, "Metro station", <<>>),
                         TierAttribute(TRUE, "", <<"2">>)>>)>>,
      <<TocLayer(TRUE, <<TierAttribute(FALSE, "Tier ", <<"4">>)>>)>>,
      <<TocLayer(TRUE, <<TierAttribute(TRUE, "", <<"0">>)>>)>>,
      <<TocLayer(FALSE, <<TierAttribute(TRUE, "", <<"3">>)>>)>>,
      <<TocLayer(TRUE, <<TierAttribute(TRUE, "", <<"7">>)>>)>>,
      <<TocLayer(TRUE, <<TierAttribute(TRUE, "", <<"0">>)>>),
        TocLayer(TRUE, <<TierAttribute(TRUE, "Tier ", <<"1">>)>>)>> }

\* records with a manual tier only
ManualRecords ==
    [zone : Zones, height_district : {"2"}, lot_area_sqft : LotAreas,
     existing_units : ExistingUnitCounts, year_built : Years,
     is_rso : BOOLEAN, use_code : UseCodes,
     raw_data : HazardSets, toc_tier : TocTiers, zimas_data : {NoZimas}]

\* records that carry zimas_data with a transit_housing section
ZimasRecords ==
    [zone : {R1, R4}, height_district : {"2"}, lot_area_sqft : {10000},
     existing_units : {0, 8}, year_built : {<<>>},
     is_rso : BOOLEAN, use_code : UseCodes,
     raw_data : {{}}, toc_tier : TocTiers, zimas_data : ZimasSamples]

Records == ManualRecords \cup ZimasRecords

(***************************************************************************)
(* State                                                                   *)
(***************************************************************************)
\* longest scenario list handed to _consolidate_scenarios directly
MaxDirectList == 2

\* scenarios with known penalty components, for direct calls of
\* _consolidate_scenarios: every affordability, approval-path and feasibility
\* class, and two unit counts that round to the same key
DirectScenarios ==
    {DevelopmentScenario(<<"Constructed">>, total, total, aff, path, <<>>, <<>>,
                         feas, <<>>) :
        total \in {RInt(2), Rat(5, 2)},
        aff \in {<<"None">>, <<"20% affordable housing">>,
                 <<"100%", " affordable housing">>},
        path \in {<<"Ministerial", " approval">>, <<"Administrative", " approval">>,
                  <<"By-right with density bonus application">>},
        feas \in {<<"High", " - reason">>, <<"Medium", " - reason">>,
                  <<"Low", " - reason">>}}

DirectLists ==
    UNION {[1..n -> DirectScenarios] : n \in 0..MaxDirectList}

\* the parcels handed to ZoningEngine.analyze_comprehensive
EngineParcels ==
    [zone : {R1, R4, <<"R", "3", "-", "1">>}, lot_area_sqft : {2000, 10000},
     existing_units : {0, 8}, is_rso : BOOLEAN]

\* the two calls that share one ZoningEngine
Callers == {1, 2}

VARIABLES
    pc,            \* "called" | "returned" | "raised" of an analysis,
                   \* "consolidate_called" | "consolidate_returned" of a direct
                   \* call of _consolidate_scenarios, "engine" in SpecEngine
    record,        \* property_data of the call
    generated,     \* scenarios as _generate_scenarios returned them
    consolidated,  \* scenarios as _consolidate_scenarios returned them
    analysis,      \* the DevelopmentAnalysis returned, <<>> before
    citations,     \* ZoningEngine.citations of the shared instance
    epc,           \* position of each analyze_comprehensive call
    eargs,         \* arguments of each analyze_comprehensive call
    eresult        \* result['citations'] of each call, once returned

analyzerVars == <<pc, record, generated, consolidated, analysis>>
engineVars == <<citations, epc, eargs, eresult>>
vars == <<pc, record, generated, consolidated, analysis,
          citations, epc, eargs, eresult>>

\* ZoningEngine.__init__, no call begun
EngineIdle ==
    /\ citations = <<>>
    /\ epc = [c \in Callers |-> "idle"]
    /\ eargs = [c \in Callers |-> <<>>]
    /\ eresult = [c \in Callers |-> <<>>]

\* analyze_development_potential(record) has been called
InitAnalyze ==
    /\ pc = "called"
    /\ record \in Records
    /\ generated = <<>>

\* _consolidate_scenarios(generated) has been called directly
InitConsolidate ==
    /\ pc = "consolidate_called"
    /\ record = <<>>
    /\ generated \in DirectLists

Init ==
    /\ InitAnalyze \/ InitConsolidate
    /\ consolidated = <<>>
    /\ analysis = <<>>
    /\ EngineIdle

\* analyze_development_potential returns
Analyze ==
    /\ pc = "called"
    /\ ~AnalysisRaises(record)
    /\ \E out \in {AnalyzeDevelopmentPotential(record)} :
           /\ generated' = out.generated
           /\ consolidated' = out.consolidated
           /\ analysis' = <<out.analysis>>
    /\ pc' = "returned"
    /\ UNCHANGED <<record, engineVars>>

\* analyze_development_potential lets an exception out
AnalyzeRaises ==
    /\ pc = "called"
    /\ AnalysisRaises(record)
    /\ pc' = "raised"
    /\ UNCHANGED <<record, generated, consolidated, analysis, engineVars>>

\* _consolidate_scenarios returns
Consolidate ==
    /\ pc = "consolidate_called"
    /\ consolidated' = ConsolidateScenarios(generated)
    /\ pc' = "consolidate_returned"
    /\ UNCHANGED <<record, generated, analysis, engineVars>>

Next == Analyze \/ AnalyzeRaises \/ Consolidate

Spec == Init /\ [][Next]_vars

(***************************************************************************)
(* Properties of the analyzer                                              *)
(***************************************************************************)
Returned == pc = "returned"

\* the ranked list of the returned DevelopmentAnalysis
Ranked == analysis[1].development_scenarios

HasScenario(scenarios, name, total_units) ==
    \E i \in 1..Len(scenarios) :
        scenarios[i].name = name /\ scenarios[i].total_units = total_units

\* C1: analyze_development_potential never raises: for every record with a
\* table zone or an unrecognized zone, any lot area, any existing unit count,
\* either RSO flag, any hazards and an empty or numeric year, the call
\* returns instead of propagating an exception.
C1_NeverRaises ==
    ~(/\ pc = "raised"
      /\ record.year_built = <<>> \/ IsDigitStr(record.year_built))

\* C2: for every input with is_rso = true, every scenario emitted by
\* _generate_scenarios, and every scenario of the returned ranked list, has
\* total_units >= existing_units.
C2_RsoReplacementFloor ==
    (Returned /\ record.is_rso) =>
        /\ \A i \in 1..Len(generated) :
              RLe(RInt(record.existing_units), generated[i].total_units)
        /\ \A i \in 1..Len(Ranked) :
              RLe(RInt(record.existing_units), Ranked[i].total_units)

\* an RSO parcel of 30 units whose SB-684 scenario is capped at 10 by statute
\* and lifted to the 30 existing units
C2_Witness ==
    /\ Returned /\ record.is_rso /\ record.existing_units = 30
    /\ HasScenario(generated, <<"SB-684", " Small Site Housing">>, RInt(30))
    /\ HasScenario(Ranked, <<"SB-684", " Small Site Housing">>, RInt(30))

\* the three penalty components of the simplicity score, as C3 states them
C3_Penalty(scenario) ==
    (IF Contains("None", scenario.affordability_required) THEN 0
     ELSE IF Contains("100%", scenario.affordability_required) THEN 10 ELSE 5)
    + (IF Contains("Ministerial", scenario.approval_path) THEN 0
       ELSE IF Contains("Administrative", scenario.approval_path) THEN 2 ELSE 5)
    + (IF Contains("High", scenario.feasibility) THEN 0
       ELSE IF Contains("Medium", scenario.feasibility) THEN 3 ELSE 8)

\* the positions of `scenarios` whose total rounds to units_key
C3_Positions(scenarios, units_key) ==
    {i \in 1..Len(scenarios) : PyRound(scenarios[i].total_units) = units_key}

C3_Consolidated == pc \in {"returned", "consolidate_returned"}

\* C3: _consolidate_scenarios: for every input list and every rounded
\* total-unit count that occurs in it, exactly one scenario with that rounded
\* count is in the output, and the simplicity score (affordability penalty
\* 0/5/10 + approval-path penalty 0/2/5 + feasibility penalty 0/3/8) of the
\* survivor is the minimum over all input scenarios with that rounded count.
C3_OneSimplestSurvivor ==
    C3_Consolidated =>
        \A i \in 1..Len(generated) :
            LET units_key == PyRound(generated[i].total_units)
                survivors == C3_Positions(consolidated, units_key)
            IN  /\ Cardinality(survivors) = 1
                /\ \A j \in survivors :
                      \A m \in C3_Positions(generated, units_key) :
                          C3_Penalty(consolidated[j]) <= C3_Penalty(generated[m])

\* a group of two or more in which the survivor is simpler than the member
\* that comes first in the input list
C3_Witness ==
    /\ C3_Consolidated
    /\ \E i \in 1..Len(generated) : \E j \in 1..Len(consolidated) :
          /\ PyRound(consolidated[j].total_units) =
                PyRound(generated[i].total_units)
          /\ \A m \in 1..(i - 1) : PyRound(generated[m].total_units) #
                                      PyRound(generated[i].total_units)
          /\ C3_Penalty(consolidated[j]) < C3_Penalty(generated[i])

\* C5: _analyze_base_zoning: for every zone in the density table
\* baseline_units equals lot_area / density_factor(zone) with the table's
\* factor, for every zone not in the table the density factor is 1000, and a
\* lot area of 0 gives baseline_units = 0.
C5_BaselineUnits ==
    Returned =>
        LET base_zoning == analysis[1].base_zoning
            zone == record.zone
        IN  /\ zone \in DOMAIN DENSITY_FACTORS =>
                  base_zoning.density_factor = DENSITY_FACTORS[zone]
            /\ zone \notin DOMAIN DENSITY_FACTORS =>
                  base_zoning.density_factor = 1000
            /\ RMul(base_zoning.baseline_units,
                    RInt(base_zoning.density_factor)) =
                  RInt(record.lot_area_sqft)
            /\ record.lot_area_sqft = 0 => base_zoning.baseline_units = RInt(0)

\* an unlisted zone on a 10000 sq ft lot: 10 baseline units
C5_Witness ==
    /\ Returned
    /\ record.zone \notin DOMAIN DENSITY_FACTORS
    /\ record.lot_area_sqft = 10000
    /\ analysis[1].base_zoning.baseline_units = RInt(10)

\* what is left of a scenario's score once the simplicity, feasibility and
\* context components are taken away: the unit-yield contribution
C6_UnitYield(scenario) ==
    RSub(RSub(RSub(scenario.recommendation_score,
                   RInt(SimplicityPoints(SimplicityAttr(scenario)))),
              RInt(FeasibilityPoints(scenario.feasibility))),
         ContextBonus(scenario, analysis[1].base_zoning,
                      analysis[1].existing_conditions, record.lot_area_sqft))

C6_Ratio(scenario) ==
    RDiv(scenario.total_units, analysis[1].base_zoning.baseline_units)

C6_PositiveBaseline ==
    Returned /\ RLt(RInt(0), analysis[1].base_zoning.baseline_units)

\* C6: the unit-yield component of _score_scenarios is monotone and capped:
\* with a positive baseline the contribution equals min(ratio * 1.5, 3.0),
\* never exceeds 3.0, and of two scenarios with equal simplicity and
\* feasibility the one with the larger ratio gets no smaller a contribution.
C6_UnitYieldMonotoneCapped ==
    C6_PositiveBaseline =>
        /\ \A i \in 1..Len(Ranked) :
              /\ C6_UnitYield(Ranked[i]) =
                    RMin(RMul(C6_Ratio(Ranked[i]), Rat(3, 2)), RInt(3))
              /\ RLe(C6_UnitYield(Ranked[i]), RInt(3))
        /\ \A i, j \in 1..Len(Ranked) :
              (/\ SimplicityAttr(Ranked[i]) = SimplicityAttr(Ranked[j])
               /\ FeasibilityPoints(Ranked[i].feasibility) =
                     FeasibilityPoints(Ranked[j].feasibility)
               /\ RLe(C6_Ratio(Ranked[i]), C6_Ratio(Ranked[j])))
              => RLe(C6_UnitYield(Ranked[i]), C6_UnitYield(Ranked[j]))

\* two scenarios of equal simplicity and feasibility, one below the cap and
\* one with a larger ratio held at the cap
C6_Witness ==
    /\ C6_PositiveBaseline
    /\ \E i, j \in 1..Len(Ranked) :
          /\ SimplicityAttr(Ranked[i]) = SimplicityAttr(Ranked[j])
          /\ FeasibilityPoints(Ranked[i].feasibility) =
                FeasibilityPoints(Ranked[j].feasibility)
          /\ RLt(C6_Ratio(Ranked[i]), C6_Ratio(Ranked[j]))
          /\ RLt(C6_UnitYield(Ranked[i]), RInt(3))
          /\ RLt(RInt(2), C6_Ratio(Ranked[j]))
          /\ C6_UnitYield(Ranked[j]) = RInt(3)

\* the sample R1 parcel of C7
C7_Input ==
    /\ record.zone = R1 /\ record.lot_area_sqft = 5000
    /\ record.existing_units = 1 /\ ~record.is_rso

\* C7: for zone R1, lot_area 5000, existing_units 1, is_rso false, the ranked
\* list returned by analyze_development_potential contains a By-Right
\* scenario with total_units 1, an SB-9 Duplex scenario with total_units 2
\* and an SB-9 Lot Split + Duplex scenario with total_units 4.
C7_Sb9Sample ==
    (Returned /\ C7_Input) =>
        /\ HasScenario(Ranked, <<"By-Right">>, RInt(1))
        /\ HasScenario(Ranked, <<"SB-9", " Duplex">>, RInt(2))
        /\ HasScenario(Ranked, <<"SB-9", " Lot Split + Duplex">>, RInt(4))

\* the sample parcel analysed, its three scenarios ranked
C7_Witness ==
    /\ Returned /\ C7_Input /\ record.raw_data = {}
    /\ Len(Ranked) = 3
    /\ Ranked[1].name = <<"SB-9", " Lot Split + Duplex">>
    /\ Ranked[1].total_units = RInt(4)

\* the sample R4 parcel of C8
C8_Input ==
    /\ record.zone = R4 /\ record.height_district = "2"
    /\ record.lot_area_sqft = 10000 /\ record.existing_units = 8
    /\ record.is_rso /\ record.toc_tier = <<"3">>
    /\ record.zimas_data = NoZimas

C8_Names(scenarios) == {scenarios[i].name : i \in 1..Len(scenarios)}

\* C8 as stated: for zone R4, height_district 2, lot_area 10000,
\* existing_units 8, is_rso true, transit tier 3, baseline_units is 25 and the
\* returned ranked list contains a By-Right scenario with 25 units, a TOC
\* Tier 3 scenario with 42.5 units and a State Density Bonus scenario with
\* 37.5 units.
C8_RankedHasDensityBonus ==
    (Returned /\ C8_Input) =>
        /\ analysis[1].base_zoning.baseline_units = RInt(25)
        /\ HasScenario(Ranked, <<"By-Right">>, RInt(25))
        /\ HasScenario(Ranked, <<"TOC", " Tier ", "3">>, Rat(85, 2))
        /\ HasScenario(Ranked, <<"State Density", " Bonus">>, Rat(75, 2))

\* C8, amended: for that input baseline_units is 25 and _generate_scenarios
\* emits By-Right with 25 units, TOC Tier 3 with 42.5 and State Density Bonus
\* with 37.5; the returned ranked list contains By-Right with 25 and TOC
\* Tier 3 with 42.5, but no State Density Bonus scenario: consolidation keeps
\* SB-330 Builder's Remedy as the one scenario with 37.5 units.
C8_DensityBonusConsolidatedAway ==
    (Returned /\ C8_Input) =>
        /\ analysis[1].base_zoning.baseline_units = RInt(25)
        /\ HasScenario(generated, <<"By-Right">>, RInt(25))
        /\ HasScenario(generated, <<"TOC", " Tier ", "3">>, Rat(85, 2))
        /\ HasScenario(generated, <<"State Density", " Bonus">>, Rat(75, 2))
        /\ HasScenario(Ranked, <<"By-Right">>, RInt(25))
        /\ HasScenario(Ranked, <<"TOC", " Tier ", "3">>, Rat(85, 2))
        /\ <<"State Density", " Bonus">> \notin C8_Names(Ranked)
        /\ HasScenario(Ranked, <<"SB-330 Builder's Remedy">>, Rat(75, 2))
        /\ \A i \in 1..Len(Ranked) :
              Ranked[i].total_units = Rat(75, 2) =>
                  Ranked[i].name = <<"SB-330 Builder's Remedy">>

\* the sample parcel analysed: the density bonus scenario was generated and
\* is gone from the ranked list
C8_Witness ==
    /\ Returned /\ C8_Input /\ record.raw_data = {}
    /\ <<"State Density", " Bonus">> \in C8_Names(generated)
    /\ <<"State Density", " Bonus">> \notin C8_Names(Ranked)
    /\ Len(Ranked) = 6

\* C9: the development_scenarios list of every returned DevelopmentAnalysis
\* is sorted by recommendation_score in non-increasing order: for every pair
\* of positions i < j, score[i] >= score[j].
C9_SortedByScore ==
    Returned =>
        \A i, j \in 1..Len(Ranked) :
            i < j => RLe(Ranked[j].recommendation_score,
                         Ranked[i].recommendation_score)

\* a ranked list whose first scenario was not generated first and whose
\* scores differ
C9_Witness ==
    /\ Returned
    /\ Len(Ranked) >= 3
    /\ Ranked[1].name # <<"By-Right">>
    /\ RLt(Ranked[Len(Ranked)].recommendation_score,
           Ranked[1].recommendation_score)

\* the scenarios of the ranked list whose feasibility classification is High
\* or Medium
C11_Feasible ==
    SelectSeq(Ranked, LAMBDA s : Contains("High", s.feasibility)
                                 \/ Contains("Medium", s.feasibility))

\* C11: _generate_bottom_line: whenever the ranked list contains a scenario
\* whose feasibility classification is High or Medium, the bottom line names
\* the one with the greatest total_units among them as the real unlock and
\* reports its total and net-new units; the 'Limited development potential'
\* text appears only when no scenario is rated High or Medium.
C11_BottomLineNamesUnlock ==
    Returned =>
        LET unlock == analysis[1].bottom_line.unlock
        IN  IF Len(C11_Feasible) = 0 THEN unlock = <<>>
            ELSE /\ Len(unlock) = 1
                 /\ \E i \in 1..Len(C11_Feasible) :
                       /\ \A j \in 1..Len(C11_Feasible) :
                             RLe(C11_Feasible[j].total_units,
                                 C11_Feasible[i].total_units)
                       /\ unlock[1].name = C11_Feasible[i].name
                       /\ unlock[1].total = PyRound(C11_Feasible[i].total_units)
                       /\ unlock[1].net_new =
                             PyRound(C11_Feasible[i].net_new_units)

\* what the code does instead: the 'Limited development potential' text on
\* every returned analysis, feasible scenarios or not
C11_AlwaysLimited ==
    Returned => analysis[1].bottom_line.unlock = <<>>

\* the programs of IncentiveOpportunities: the flag, the leading part of the
\* names of the scenarios that stand for the program, and how many scenarios
\* the program may contribute
C12_Programs ==
    LET incentives == analysis[1].incentive_opportunities
    IN  { [set |-> incentives.toc_tier # <<>> /\ incentives.toc_tier[1] # 0,
           heads |-> {"TOC"}, most |-> 1],
          [set |-> incentives.state_density_bonus,
           heads |-> {"State Density"}, most |-> 1],
          [set |-> incentives.sb9_eligible, heads |-> {"SB-9"}, most |-> 2],
          [set |-> incentives.ed1_eligible,
           heads |-> {"100% Affordable (ED-1)"}, most |-> 1],
          [set |-> incentives.sb35_eligible,
           heads |-> {"SB-35 Streamlined Affordable"}, most |-> 1],
          [set |-> incentives.sb423_eligible,
           heads |-> {"SB-35 Streamlined Affordable", "SB-423"}, most |-> 1],
          [set |-> incentives.sb330_eligible,
           heads |-> {"SB-330 Builder's Remedy"}, most |-> 1],
          [set |-> incentives.ab2011_eligible,
           heads |-> {"AB-2011 Commercial Conversion"}, most |-> 1],
          [set |-> incentives.sb4_eligible, heads |-> {"SB-4"}, most |-> 1],
          [set |-> incentives.ab1287_eligible,
           heads |-> {"AB-1287 Enhanced Density Bonus"}, most |-> 1],
          [set |-> incentives.ab1449_eligible, heads |-> {"AB-1449"}, most |-> 1],
          [set |-> incentives.sb684_eligible, heads |-> {"SB-684"}, most |-> 1],
          [set |-> incentives.ab2334_eligible, heads |-> {"AB-2334"}, most |-> 1] }

C12_Emitted(heads) ==
    Cardinality({i \in 1..Len(generated) : Head(generated[i].name) \in heads})

\* C12: _generate_scenarios emits a scenario for every eligible incentive
\* program: for each program whose eligibility flag (or tier) is set, the
\* generator output contains exactly one scenario for that program, except
\* SB-9 which may contribute two.
C12_ScenarioPerEligibleProgram ==
    Returned =>
        \A program \in C12_Programs :
            program.set => /\ C12_Emitted(program.heads) >= 1
                           /\ C12_Emitted(program.heads) <= program.most

\* the position of a scenario's block in _generate_scenarios
C13_GenerationOrder(scenario) ==
    CASE Head(scenario.name) = "By-Right" -> 1
      [] Head(scenario.name) = "TOC" -> 2
      [] Head(scenario.name) = "State Density" -> 3
      [] scenario.name = <<"SB-9", " Lot Split + Duplex">> -> 4
      [] scenario.name = <<"SB-9", " Duplex">> -> 5
      [] Head(scenario.name) = "100% Affordable (ED-1)" -> 6
      [] Head(scenario.name) = "SB-35 Streamlined Affordable" -> 7
      [] Head(scenario.name) = "AB-2011 Commercial Conversion" -> 8
      [] Head(scenario.name) = "AB-1287 Enhanced Density Bonus" -> 9
      [] Head(scenario.name) = "SB-330 Builder's Remedy" -> 10
      [] Head(scenario.name) = "SB-684" -> 11

\* C13: consolidation tie-break within analyze_development_potential: when
\* several scenarios with the same rounded total_units share the minimum
\* simplicity score, the one kept is the one created first in generation
\* order.
C13_TieKeepsFirstGenerated ==
    Returned =>
        \A j \in 1..Len(consolidated) : \A i \in 1..Len(generated) :
            (/\ PyRound(generated[i].total_units) =
                   PyRound(consolidated[j].total_units)
             /\ C3_Penalty(generated[i]) = C3_Penalty(consolidated[j]))
            => C13_GenerationOrder(consolidated[j]) <=
                  C13_GenerationOrder(generated[i])

C15_SimplicityContribution(scenario) ==
    RSub(RSub(RSub(scenario.recommendation_score,
                   UnitYieldPoints(scenario.total_units,
                                   analysis[1].base_zoning.baseline_units)),
              RInt(FeasibilityPoints(scenario.feasibility))),
         ContextBonus(scenario, analysis[1].base_zoning,
                      analysis[1].existing_conditions, record.lot_area_sqft))

\* 4 points if S <= 2, 3 if S <= 5, 2 if S <= 8, otherwise 1
C15_Ladder(S) ==
    IF S <= 2 THEN 4 ELSE IF S <= 5 THEN 3 ELSE IF S <= 8 THEN 2 ELSE 1

\* C15: for every scenario in the final ranked list, the simplicity
\* contribution to recommendation_score is the ladder value of that
\* scenario's own consolidation simplicity score S (affordability penalty +
\* approval-path penalty + feasibility penalty), both for scenarios that were
\* alone in their unit-count group and for survivors of larger groups.
C15_LadderOfOwnSimplicity ==
    Returned =>
        \A i \in 1..Len(Ranked) :
            C15_SimplicityContribution(Ranked[i]) =
                RInt(C15_Ladder(C3_Penalty(Ranked[i])))

\* what the code does for a scenario alone in its group: 4 points whatever
\* its penalties are, as no simplicity_score attribute was ever set on it
C15_AloneGetsFourPoints ==
    Returned =>
        \A i \in 1..Len(Ranked) :
            Ranked[i].simplicity_score = <<>> =>
                C15_SimplicityContribution(Ranked[i]) = RInt(4)

\* C16: year parsing never raises: for every year_built value that is empty,
\* a numeric string, or a non-numeric (invalid) string,
\* _analyze_existing_conditions and _analyze_constraints return normally,
\* treating an empty or invalid year as 0. The year is parsed before any
\* other step that can raise, so no call with an invalid year may end in an
\* exception.
C16_YearParsingNeverRaises ==
    ~(/\ pc = "raised"
      /\ record.year_built # <<>>
      /\ ~IsDigitStr(record.year_built))

\* the SB-684 scenarios the generator emitted
C17_Sb684 ==
    SelectSeq(generated, LAMBDA s : Head(s.name) = "SB-684")

C18_ExistingExceedsBonusCounts ==
    /\ RLt(RMul(analysis[1].base_zoning.baseline_units, RInt(2)),
           RInt(record.existing_units))
    /\ RLt(Rat(record.lot_area_sqft, 400), RInt(record.existing_units))
    /\ record.existing_units > 10

\* C18 as stated: there are inputs (existing_units greater than the
\* bonus-derived unit count) for which a scenario other than By-Right is
\* emitted with net_new_units < 0: on such an input, where a scenario other
\* than By-Right is emitted, one of them has net_new_units < 0.
C18_SomeNegativeNetNew ==
    (/\ Returned
     /\ C18_ExistingExceedsBonusCounts
     /\ \E i \in 1..Len(generated) : Head(generated[i].name) # "By-Right")
    => \E i \in 1..Len(generated) :
          /\ Head(generated[i].name) # "By-Right"
          /\ RLt(generated[i].net_new_units, RInt(0))

\* C18, amended: no emitted scenario has net_new_units < 0. Every scenario,
\* By-Right or not, has net_new_units = total_units - existing_units, and as
\* total_units carries the replacement floor this is 0 when existing_units
\* exceeds the bonus-derived count; the clamp of By-Right changes nothing.
C18_NetNewNeverNegative ==
    Returned =>
        \A i \in 1..Len(generated) :
            /\ generated[i].net_new_units =
                  RSub(generated[i].total_units, RInt(record.existing_units))
            /\ RLe(RInt(0), generated[i].net_new_units)

\* 30 existing units against a bonus-derived count of 10: SB-684 is emitted
\* with 30 units and no net-new unit
C18_Witness ==
    /\ Returned /\ record.existing_units = 30
    /\ C18_ExistingExceedsBonusCounts
    /\ \E i \in 1..Len(generated) :
          /\ Head(generated[i].name) = "SB-684"
          /\ generated[i].total_units = RInt(30)
          /\ generated[i].net_new_units = RInt(0)

\* a ranked scenario with its two annotation fields put back to what the
\* generator left in them
C19_Unannotated(ranked, emitted) ==
    [ranked EXCEPT !.recommendation_score = emitted.recommendation_score,
                   !.recommendation_reason = emitted.recommendation_reason]

\* C19: frame of consolidation and scoring: _consolidate_scenarios and
\* _score_scenarios change no field of any scenario other than
\* recommendation_score and recommendation_reason; every surviving scenario
\* is, in all its other fields, a scenario the generator produced, and no
\* other attribute is added to or altered on it.
C19_OnlyScoreAndReasonChange ==
    Returned =>
        \A j \in 1..Len(Ranked) :
            \E i \in 1..Len(generated) :
                C19_Unannotated(Ranked[j], generated[i]) = generated[i]

\* what does hold: the fields the generator wrote are never altered; the
\* one thing added is the simplicity_score attribute of a group's survivor
C19_GeneratorFieldsKept ==
    Returned =>
        \A j \in 1..Len(Ranked) :
            \E i \in 1..Len(generated) :
                [C19_Unannotated(Ranked[j], generated[i])
                    EXCEPT !.simplicity_score = <<>>] = generated[i]

\* C20: transit-tier eligibility: the resolved toc_tier is either absent or a
\* number in 1..4, so a TOC scenario is emitted only with tier 1, 2, 3 or 4;
\* the tier comes from the nested transit-proximity attributes when one can
\* be extracted there, otherwise from the manually supplied toc_tier,
\* otherwise the program is ineligible.
C20_TierInRange ==
    Returned =>
        /\ analysis[1].incentive_opportunities.toc_tier
              \in {<<>>, <<1>>, <<2>>, <<3>>, <<4>>}
        /\ \A i \in 1..Len(generated) :
              Head(generated[i].name) = "TOC" =>
                  generated[i].name \in {<<"TOC", " Tier ", "1">>,
                                         <<"TOC", " Tier ", "2">>,
                                         <<"TOC", " Tier ", "3">>,
                                         <<"TOC", " Tier ", "4">>}

\* what does hold: a nested tier other than 0 wins over the manual one, the
\* manual one is used otherwise, and without either no TOC scenario is
\* emitted
C20_NestedBeforeManual ==
    Returned =>
        LET nested == ZimasTocTier(record)
            toc_tier == analysis[1].incentive_opportunities.toc_tier
        IN  /\ (nested # <<>> /\ nested[1] # 0) => toc_tier = nested
            /\ ((nested = <<>> \/ nested[1] = 0) /\ record.toc_tier # <<>>)
                  => toc_tier = <<ParseInt(record.toc_tier)>>
            /\ (nested = <<>> /\ record.toc_tier = <<>>) =>
                  /\ toc_tier = <<>>
                  /\ \A i \in 1..Len(generated) :
                        Head(generated[i].name) # "TOC"

\* the zone is a listed commercial class or the use code starts with '5'
C21_CommercialUse ==
    \/ \E cz \in COMMERCIAL_ZONES : StartsWith(ExtractZone(record), cz)
    \/ StartsWith(record.use_code, <<"5">>)

\* C21: commercial-conversion (AB-2011) eligibility: ab2011_eligible is true
\* exactly when the zone begins with one of the listed commercial classes
\* (C1, C2, C4, CM, CR, CW) or the use code indicates commercial use (starts
\* with '5'); for a residential zone with a non-commercial use code the flag
\* is false.
C21_Ab2011OnlyCommercial ==
    Returned =>
        analysis[1].incentive_opportunities.ab2011_eligible = C21_CommercialUse

\* what the code does: every zone that starts with R is eligible as well
C21_Ab2011AlsoResidential ==
    Returned =>
        analysis[1].incentive_opportunities.ab2011_eligible =
            (C21_CommercialUse \/ StartsWith(ExtractZone(record), <<"R">>))

\* rent-stabilized and more existing units than the baseline allows
C22_OverBuild ==
    /\ record.is_rso
    /\ RLt(analysis[1].base_zoning.baseline_units, RInt(record.existing_units))

\* the multiple-hazard rule of a program: more than 2 hazards for By-Right,
\* more than 1 for TOC, none for the State Density Bonus
C22_HazardRule(scenario) ==
    LET hazards == Len(analysis[1].constraints.environmental_hazards)
    IN  CASE Head(scenario.name) = "By-Right" -> hazards > 2
          [] Head(scenario.name) = "TOC" -> hazards > 1
          [] Head(scenario.name) = "State Density" -> FALSE

\* the cascade as C22 states it, for the scenarios of the given programs
C22_Cascade(heads) ==
    Returned =>
        \A i \in 1..Len(generated) :
            Head(generated[i].name) \in heads =>
                /\ C22_OverBuild => Head(generated[i].feasibility) = "Medium"
                /\ Head(generated[i].feasibility) = "High" =>
                      ~C22_OverBuild /\ ~C22_HazardRule(generated[i])

\* C22: feasibility cascade, first rule: for every rent-stabilized parcel
\* whose existing units exceed the baseline units (RSO over-build), the
\* By-Right, TOC and State Density Bonus scenarios that are emitted are all
\* classified Medium; a scenario of these programs is classified High only
\* when neither the over-build rule nor the program's multiple-hazard rule
\* applies.
C22_OverBuildIsMedium == C22_Cascade({"By-Right", "TOC", "State Density"})

\* what does hold: the By-Right and State Density Bonus scenarios follow the
\* cascade; the TOC scenario of a rent-stabilized parcel is High, over-built
\* or not, whatever the hazards
C22_ByRightAndSdbCascade == C22_Cascade({"By-Right", "State Density"})

\* f"Simplest path to achieve {units_key} units"
C23_SimplestPath(units_key) ==
    [kind |-> "Simplest path to achieve", units |-> units_key, labels |-> <<>>]

\* the scenario was retained from a group of two or more generated scenarios
C23_FromLargerGroup(scenario) ==
    Cardinality(C3_Positions(generated, PyRound(scenario.total_units))) >= 2

\* C23 as stated: in the DevelopmentAnalysis returned by
\* analyze_development_potential, every scenario that was retained from a
\* group of two or more scenarios with the same rounded unit count N has the
\* recommendation reason 'Simplest path to achieve N units'.
C23_SimplestPathInAnalysis ==
    Returned =>
        \A j \in 1..Len(Ranked) :
            C23_FromLargerGroup(Ranked[j]) =>
                Ranked[j].recommendation_reason =
                    C23_SimplestPath(PyRound(Ranked[j].total_units))

\* C23, amended: in the list _consolidate_scenarios returns, every scenario
\* retained from a group of two or more has the reason 'Simplest path to
\* achieve N units'; _score_scenarios then runs on that list and writes
\* 'Recommended because of ...' over the reason of every scenario, so no
\* scenario of the returned DevelopmentAnalysis carries the simplest-path
\* reason.
C23_SimplestPathUntilScored ==
    /\ C3_Consolidated =>
          \A j \in 1..Len(consolidated) :
              C23_FromLargerGroup(consolidated[j]) =>
                  consolidated[j].recommendation_reason =
                      C23_SimplestPath(PyRound(consolidated[j].total_units))
    /\ Returned =>
          \A j \in 1..Len(Ranked) :
              /\ Ranked[j].recommendation_reason.kind = "Recommended because of"
              /\ Len(Ranked[j].recommendation_reason.labels) \in 2..3

\* an analysis whose consolidation kept one of several scenarios with 38
\* units under the simplest-path reason, and whose ranked list shows that
\* scenario with the scorer's reason
C23_Witness ==
    /\ Returned
    /\ \E j \in 1..Len(consolidated) : \E k \in 1..Len(Ranked) :
          /\ C23_FromLargerGroup(consolidated[j])
          /\ consolidated[j].recommendation_reason = C23_SimplestPath(38)
          /\ Ranked[k].name = consolidated[j].name
          /\ Ranked[k].recommendation_reason.kind = "Recommended because of"

\* the scenarios of the ranked list whose feasibility classification is High
C24_High ==
    SelectSeq(Ranked, LAMBDA s : Contains("High", s.feasibility))

\* the steps that follow the pursuit steps: due diligence iff there are
\* hazards, relocation iff replacement units are owed, then the two generic
\* steps
C24_CommonSteps ==
    (IF Len(analysis[1].constraints.environmental_hazards) > 0
     THEN <<Step("Conduct environmental due diligence for hazard mitigation", <<>>)>>
     ELSE <<>>)
    \o (IF analysis[1].constraints.rso_replacement_units > 0
        THEN <<Step("Develop RSO tenant relocation and replacement unit plan", <<>>)>>
        ELSE <<>>)
    \o <<Step("Verify TOC tier designation and transit proximity", <<>>),
         Step("Engage with planning consultant for entitlement strategy", <<>>)>>

\* C24: _generate_next_steps returns exactly this ordered list: if some
\* scenario is rated High, 'Pursue <name>' and 'Confirm <affordability>' for
\* the High scenario with the greatest total_units; then the environmental
\* due-diligence step iff the hazard list is non-empty; then the RSO
\* relocation step iff rso_replacement_units > 0; then always the
\* TOC-verification step followed by the planning-consultant step as the
\* last two entries.
C24_NextStepsList ==
    Returned =>
        IF Len(C24_High) = 0 THEN analysis[1].next_steps = C24_CommonSteps
        ELSE \E i \in 1..Len(C24_High) :
                /\ \A j \in 1..Len(C24_High) :
                      RLe(C24_High[j].total_units, C24_High[i].total_units)
                /\ analysis[1].next_steps =
                      <<Step("Pursue {} for optimal unit yield", C24_High[i].name),
                        Step("Confirm {} affordability strategy",
                             C24_High[i].affordability_required)>>
                      \o C24_CommonSteps

\* what the code does instead: the pursuit steps are never there, High
\* scenarios or not; the rest of the list is as stated
C24_NeverPursues ==
    Returned => analysis[1].next_steps = C24_CommonSteps

\* the contextual bonuses as C25 lists them, by the program of the scenario:
\* SB-9 (lot split and duplex, the two scenarios of the SB-9 duplex program)
\* and SB-684 on a lot under 3000 sq ft, SB-9 in zone R1, TOC and State
\* Density Bonus on a rent-stabilized parcel
C25_Bonuses(scenario) ==
    LET program == C13_GenerationOrder(scenario)
    IN  RAdd(RAdd(IF record.lot_area_sqft < 3000 /\ program \in {4, 5, 11}
                  THEN RInt(1) ELSE RInt(0),
                  IF record.zone = R1 /\ program \in {4, 5}
                  THEN RInt(2) ELSE RInt(0)),
             IF record.is_rso /\ program \in {2, 3}
             THEN Rat(1, 2) ELSE RInt(0))

\* 3 High / 2 Medium / 1 Low, by the classification the feasibility starts with
C25_FeasibilityPoints(scenario) ==
    CASE Head(scenario.feasibility) = "High" -> 3
      [] Head(scenario.feasibility) = "Medium" -> 2
      [] OTHER -> 1

\* min(total_units / baseline_units * 1.5, 3.0), nothing without a baseline
C25_UnitYieldPoints(scenario) ==
    LET baseline_units == analysis[1].base_zoning.baseline_units
    IN  IF baseline_units = RInt(0) THEN RInt(0)
        ELSE RMin(RMul(RDiv(scenario.total_units, baseline_units), Rat(3, 2)),
                  RInt(3))

\* the score _score_scenarios assigns, as C25 composes it
C25_Score(scenario) ==
    RAdd(RAdd(RAdd(RInt(SimplicityPoints(SimplicityAttr(scenario))),
                   C25_UnitYieldPoints(scenario)),
              RInt(C25_FeasibilityPoints(scenario))),
         C25_Bonuses(scenario))

\* C25: the final recommendation_score of every scenario equals simplicity
\* points + unit-yield points + feasibility points (3 High / 2 Medium /
\* 1 Low) + contextual bonuses, where the bonuses are exactly: +1 for SB-9
\* and SB-684 scenarios when lot area < 3000, +2 for the scenarios of the
\* SB-9 duplex program when the zone is R1, +0.5 for TOC and State Density
\* Bonus scenarios when the parcel is rent-stabilized, and no bonus for any
\* other scenario. The same holds of the scores _score_scenarios wrote when
\* the generator called it, the one place where a State Density Bonus
\* scenario is seen with its score.
C25_ScoreIsSumWithBonuses ==
    Returned =>
        /\ \A i \in 1..Len(Ranked) :
              Ranked[i].recommendation_score = C25_Score(Ranked[i])
        /\ \A i \in 1..Len(generated) :
              generated[i].recommendation_score = C25_Score(generated[i])

\* a rent-stabilized parcel under 3000 sq ft: the ranked list has SB-684 with
\* the small-lot bonus, TOC with the rent-stabilization bonus and a scenario
\* without any bonus, and the State Density Bonus scenario was scored with
\* the rent-stabilization bonus before consolidation dropped it
C25_Witness ==
    /\ Returned /\ record.is_rso /\ record.lot_area_sqft = 2400
    /\ \E i, j, k \in 1..Len(Ranked) :
          /\ Head(Ranked[i].name) = "SB-684"
          /\ C25_Bonuses(Ranked[i]) = RInt(1)
          /\ Head(Ranked[j].name) = "TOC"
          /\ C25_Bonuses(Ranked[j]) = Rat(1, 2)
          /\ C25_Bonuses(Ranked[k]) = RInt(0)
    /\ \E i \in 1..Len(generated) :
          /\ Head(generated[i].name) = "State Density"
          /\ C25_Bonuses(generated[i]) = Rat(1, 2)

\* max(baseline_units * multiplier, existing_units)
C27_FlooredTotal(multiplier) ==
    RMax(RMul(analysis[1].base_zoning.baseline_units, multiplier),
         RInt(record.existing_units))

\* every generated scenario called `name` has the given total, and a
\* scenario called `twin` with that total is generated too
C27_HasTwin(name, twin, total_units) ==
    \A i \in 1..Len(generated) :
        generated[i].name = name =>
            /\ generated[i].total_units = total_units
            /\ HasScenario(generated, twin, total_units)

\* C27: whenever a State Density Bonus scenario is generated, an SB-330
\* Builder's Remedy scenario with the identical total_units
\* (max(baseline * 1.5, existing)) is generated too, and whenever an AB-1287
\* scenario is generated an ED-1 scenario with the identical total_units
\* (max(baseline * 2.0, existing)) is generated too; hence the ranked list
\* returned by analyze_development_potential never contains both members of
\* either pair.
C27_TwinScenarios ==
    Returned =>
        /\ C27_HasTwin(<<"State Density", " Bonus">>, <<"SB-330 Builder's Remedy">>,
                       C27_FlooredTotal(Rat(3, 2)))
        /\ C27_HasTwin(<<"AB-1287 Enhanced Density Bonus">>,
                       <<"100% Affordable (ED-1)">>, C27_FlooredTotal(RInt(2)))
        /\ ~({<<"State Density", " Bonus">>, <<"SB-330 Builder's Remedy">>}
                \subseteq C8_Names(Ranked))
        /\ ~({<<"AB-1287 Enhanced Density Bonus">>, <<"100% Affordable (ED-1)">>}
                \subseteq C8_Names(Ranked))

\* both pairs generated on a parcel whose bonus counts exceed the existing
\* units, and one member of each pair left in the ranked list
C27_Witness ==
    /\ Returned
    /\ RLt(RInt(record.existing_units), analysis[1].base_zoning.baseline_units)
    /\ {<<"State Density", " Bonus">>, <<"SB-330 Builder's Remedy">>,
         <<"AB-1287 Enhanced Density Bonus">>, <<"100% Affordable (ED-1)">>}
           \subseteq C8_Names(generated)
    /\ <<"SB-330 Builder's Remedy">> \in C8_Names(Ranked)
    /\ <<"State Density", " Bonus">> \notin C8_Names(Ranked)
    /\ <<"AB-1287 Enhanced Density Bonus">> \in C8_Names(Ranked)
    /\ <<"100% Affordable (ED-1)">> \notin C8_Names(Ranked)

\* C28: the feasibility field of every generated scenario is a string of the
\* form '<class> - <reason>' whose class is High or Medium; no scenario is
\* ever classified Low, and the field never equals the bare word 'High' or
\* 'Medium'.
C28_ClassAndReason ==
    Returned =>
        \A i \in 1..Len(generated) :
            LET feasibility == generated[i].feasibility
            IN  /\ Head(feasibility) \in {"High", "Medium"}
                /\ Len(feasibility) >= 2
                /\ Len(feasibility) >= 3 => feasibility[2] = " - "
                /\ ~Contains("Low", feasibility)
                /\ feasibility \notin {<<"High">>, <<"Medium">>}
                /\ FeasibilityPoints(feasibility) \in {2, 3}

\* a generated list with High and with Medium scenarios, among them an ED-1
\* scenario
C28_Witness ==
    /\ Returned
    /\ \E i, j, k \in 1..Len(generated) :
          /\ Head(generated[i].feasibility) = "High"
          /\ Head(generated[j].feasibility) = "Medium"
          /\ generated[k].name = <<"100% Affordable (ED-1)">>
          /\ Len(generated[k].feasibility) = 2

\* what ZoningEngine.calculate_lot_units gives for the parcel of the record
C29_LotUnits ==
    CalculateLotUnits(record.lot_area_sqft, ExtractZone(record),
                      record.existing_units, record.is_rso)

\* the density factor ZoningEngine.calculate_lot_units uses, as it cites it
C29_EngineDensityFactor == DensityCitation(ExtractZone(record)).value.int

\* C29: the two engine implementations agree on the baseline: for every zone
\* string and lot area, ZoningEngine.calculate_lot_units and
\* DevelopmentAnalyzer._analyze_base_zoning use the same density factor and
\* return the same baseline_units.
C29_EnginesAgree ==
    Returned =>
        /\ analysis[1].base_zoning.density_factor = C29_EngineDensityFactor
        /\ analysis[1].base_zoning.baseline_units = C29_LotUnits.baseline_units

\* what does hold: the two agree on every zone that is a key of both tables
\* or of neither; they differ on RAS3, a key of ZoningEngine.DENSITY_FACTORS
\* alone
C29_AgreeOutsideRas ==
    Returned =>
        IF ExtractZone(record) \in {RAS3, RAS4}
        THEN /\ analysis[1].base_zoning.density_factor = DefaultDensityFactor
             /\ C29_EngineDensityFactor # DefaultDensityFactor
        ELSE /\ analysis[1].base_zoning.density_factor = C29_EngineDensityFactor
             /\ analysis[1].base_zoning.baseline_units =
                   C29_LotUnits.baseline_units

\* the rounded unit counts of a scenario list
C30_UnitCounts(scenarios) ==
    {PyRound(scenarios[i].total_units) : i \in 1..Len(scenarios)}

\* C30: every DevelopmentAnalysis that is returned has a non-empty scenario
\* list whose members have pairwise distinct rounded total_units: the
\* generator always creates a By-Right scenario, consolidation keeps exactly
\* one scenario per rounded unit count, and scoring removes none.
C30_DistinctUnitCounts ==
    Returned =>
        /\ Len(Ranked) >= 1
        /\ \A i, j \in 1..Len(Ranked) :
              i # j => PyRound(Ranked[i].total_units) #
                          PyRound(Ranked[j].total_units)
        /\ <<"By-Right">> \in C8_Names(generated)
        /\ Len(consolidated) = Cardinality(C30_UnitCounts(generated))
        /\ C30_UnitCounts(consolidated) = C30_UnitCounts(generated)
        /\ Len(Ranked) = Len(consolidated)
        /\ C8_Names(Ranked) = C8_Names(consolidated)

\* eight scenarios generated, some with equal rounded counts, and fewer in
\* the ranked list
C30_Witness ==
    /\ Returned
    /\ Len(generated) >= 8
    /\ Len(Ranked) >= 3
    /\ Len(Ranked) < Len(generated)

(***************************************************************************)
(* Two analyze_comprehensive calls on one ZoningEngine, step by step       *)
(***************************************************************************)
InitEngine ==
    /\ pc = "engine"
    /\ record = <<>>
    /\ generated = <<>>
    /\ consolidated = <<>>
    /\ analysis = <<>>
    /\ citations = <<>>
    /\ epc = [c \in Callers |-> "entered"]
    /\ eargs \in [Callers -> EngineParcels]
    /\ eresult = [c \in Callers |-> <<>>]

\* where a call goes once calculate_lot_units has returned
AfterLotUnits(c) == IF Sb9Eligible(eargs[c].zone) THEN "sb9" ELSE "return"

\* the call entered with the accumulator left as the last call filled it
EngineEnterWithoutReset(c) ==
    /\ epc[c] = "entered"
    /\ epc' = [epc EXCEPT ![c] = "lot_units"]
    /\ UNCHANGED <<analyzerVars, citations, eargs, eresult>>

\* line 399: self.citations = []
EngineReset(c) ==
    /\ epc[c] = "entered"
    /\ citations' = <<>>
    /\ epc' = [epc EXCEPT ![c] = "lot_units"]
    /\ UNCHANGED <<analyzerVars, eargs, eresult>>

\* lines 208-213: calculate_lot_units appends the density citation
EngineCiteDensity(c) ==
    /\ epc[c] = "lot_units"
    /\ citations' = Append(citations, DensityCitation(eargs[c].zone))
    /\ epc' = [epc EXCEPT ![c] = IF eargs[c].is_rso THEN "rso"
                                 ELSE AfterLotUnits(c)]
    /\ UNCHANGED <<analyzerVars, eargs, eresult>>

\* lines 220-226: calculate_lot_units appends the SB 330 citation
EngineCiteRso(c) ==
    /\ epc[c] = "rso"
    /\ citations' = Append(citations, Sb330Citation(eargs[c].existing_units))
    /\ epc' = [epc EXCEPT ![c] = AfterLotUnits(c)]
    /\ UNCHANGED <<analyzerVars, eargs, eresult>>

\* lines 302-308: analyze_sb9_eligibility appends the SB 9 citation
EngineCiteSb9(c) ==
    /\ epc[c] = "sb9"
    /\ citations' = Append(citations, Sb9Citation)
    /\ epc' = [epc EXCEPT ![c] = "return"]
    /\ UNCHANGED <<analyzerVars, eargs, eresult>>

\* line 446: 'citations': [asdict(c) for c in self.citations]
EngineReturn(c) ==
    /\ epc[c] = "return"
    /\ eresult' = [eresult EXCEPT ![c] = citations]
    /\ epc' = [epc EXCEPT ![c] = "returned"]
    /\ UNCHANGED <<analyzerVars, citations, eargs>>

NextEngine ==
    \E c \in Callers :
        \/ EngineReset(c)
        \/ EngineCiteDensity(c)
        \/ EngineCiteRso(c)
        \/ EngineCiteSb9(c)
        \/ EngineReturn(c)

SpecEngine == InitEngine /\ [][NextEngine]_vars

(***************************************************************************)
(* Properties of the engine                                                *)
(***************************************************************************)
\* the citations analyze_comprehensive produces for one parcel on its own
C10_OwnCitations(parcel) ==
    <<DensityCitation(parcel.zone)>>
    \o (IF parcel.is_rso THEN <<Sb330Citation(parcel.existing_units)>>
        ELSE <<>>)
    \o (IF Sb9Eligible(parcel.zone) THEN <<Sb9Citation>> ELSE <<>>)

\* C10: when two analyze_comprehensive calls for different parcels run on one
\* shared ZoningEngine under any interleaving of their steps, the citations
\* each call returns are exactly the citations of its own parcel, the same
\* as if the call had run alone.
C10_CitationsIndependent ==
    eargs[1] # eargs[2] =>
        \A c \in Callers :
            epc[c] = "returned" => eresult[c] = C10_OwnCitations(eargs[c])

(***************************************************************************)
(* analyze_comprehensive calls on one ZoningEngine, one after the other    *)
(***************************************************************************)
\* no other call is between its entry and its return
NoCallInProgress(c) ==
    \A d \in Callers \ {c} : epc[d] \in {"entered", "returned"}

\* a call begins only while no other call runs
EngineResetAlone(c) == NoCallInProgress(c) /\ EngineReset(c)

\* a caller whose call has returned calls analyze_comprehensive again, for
\* any parcel
EngineCallAgain(c) ==
    /\ epc[c] = "returned"
    /\ \E parcel \in EngineParcels : eargs' = [eargs EXCEPT ![c] = parcel]
    /\ eresult' = [eresult EXCEPT ![c] = <<>>]
    /\ epc' = [epc EXCEPT ![c] = "entered"]
    /\ UNCHANGED <<analyzerVars, citations>>

NextEngineSequential ==
    \E c \in Callers :
        \/ EngineResetAlone(c)
        \/ EngineCiteDensity(c)
        \/ EngineCiteRso(c)
        \/ EngineCiteSb9(c)
        \/ EngineReturn(c)
        \/ EngineCallAgain(c)

SpecEngineSequential == InitEngine /\ [][NextEngineSequential]_vars

\* C26: citation accumulator reset: for any sequence of non-overlapping
\* analyze_comprehensive calls on one ZoningEngine instance, the citations
\* returned by each call contain only the citations generated during that
\* call (the density-factor citation, the SB 330 citation iff is_rso, the
\* SB 9 citation iff the base zone is R1) and none from earlier calls.
C26_CitationsOfOwnCall ==
    \A c \in Callers :
        epc[c] = "returned" =>
            eresult[c] =
                <<DensityCitation(eargs[c].zone)>>
                \o (IF eargs[c].is_rso
                    THEN <<Sb330Citation(eargs[c].existing_units)>> ELSE <<>>)
                \o (IF ParseZone(eargs[c].zone) = R1 THEN <<Sb9Citation>>
                    ELSE <<>>)

\* a call with one citation of its own has returned after a call that left
\* three citations in the accumulator
C26_Witness ==
    \E c, d \in Callers :
        /\ c # d
        /\ epc[c] = "returned" /\ Len(eresult[c]) = 3
        /\ epc[d] = "returned" /\ Len(eresult[d]) = 1
        /\ citations = eresult[d]

====
